---------------------------- MODULE Spec2Model ----------------------------
(***************************************************************************)
(* Model of the skylark drone-operations coordinator: the record store     *)
(* (sheets_sync.py, local-CSV path), the roster and inventory managers,    *)
(* the assignment tracker and the conflict detector.                       *)
(*                                                                         *)
(* The specifications share the variables: Spec runs the operations that   *)
(* write the store (AssignSpec and CreateSpec the assignment operations    *)
(* alone, AutoMatchSpec the auto-matched assignment on varied stores),     *)
(* QuerySpec asks the read-only queries of a store, ScanSpec runs the      *)
(* conflict scans on a store (BadRecordSpec on a store with a bad record), *)
(* RaceSpec interleaves two create_assignment calls, and RulesSpec applies *)
(* the pure rules of utils.py to drawn inputs.                             *)
(*                                                                         *)
(* Strings that the code inspects character by character (str.contains,    *)
(* "in", lower()) are TLA+ strings whose characters are given by Chars.    *)
(* Skill / certification cells are modelled as their parsed token lists.   *)
(* Dates are day ordinals; Malformed stands for an unparseable date.       *)
(* A DataFrame is the sequence of its rows; df[mask] is SelectSeq.         *)
(* mission_cells holds the cells of the missions store that record an      *)
(* assignment; the other mission columns are the constant missions.        *)
(***************************************************************************)
EXTENDS Integers, Sequences, FiniteSets, TLC

VARIABLES pilot_roster, drone_fleet, mission_cells, last, steps

vars == <<pilot_roster, drone_fleet, mission_cells, last, steps>>

(* ------------------------------ bounds -------------------------------- *)
\* number of engine operations explored from the initial store
MaxSteps == 3
\* number of read-only queries asked of one store
MaxQueries == 1
\* number of conflict scans run on one store
MaxScans == 2

(* ----------------------------- constants ------------------------------ *)
NoneVal == "<None>"        \* Python None
Dash == "-"                \* the store's marker for "no current assignment"
Malformed == -1            \* a date cell that strptime cannot parse
NaN == <<"<NaN>">>         \* an empty skills / certifications cell, as read_csv loads it
Raised == "<raised>"       \* the call ended in an uncaught exception
NonNumeric == -2           \* a budget cell that float() cannot convert

\* a Python value that "if x:" / "if not x:" treats as false
Falsy(x) == x = NoneVal \/ x = ""

(* ------------------------------ strings ------------------------------- *)
Chars(s) ==
  CASE s = "Available"   -> <<"A","v","a","i","l","a","b","l","e">>
    [] s = "Unavailable" -> <<"U","n","a","v","a","i","l","a","b","l","e">>
    [] s = "Assigned"    -> <<"A","s","s","i","g","n","e","d">>
    [] s = "On Leave"    -> <<"O","n"," ","L","e","a","v","e">>
    [] s = "Maintenance" -> <<"M","a","i","n","t","e","n","a","n","c","e">>
    [] s = "Bogus"       -> <<"B","o","g","u","s">>
    [] s = "Bangalore"   -> <<"B","a","n","g","a","l","o","r","e">>
    [] s = "Bangalore North" -> <<"B","a","n","g","a","l","o","r","e"," ","N","o","r","t","h">>
    [] s = "Mumbai"      -> <<"M","u","m","b","a","i">>
    [] s = "Thermal"     -> <<"T","h","e","r","m","a","l">>
    [] s = "RGB"         -> <<"R","G","B">>
    [] s = "LiDAR"       -> <<"L","i","D","A","R">>
    [] s = "RGB, Thermal" -> <<"R","G","B",","," ","T","h","e","r","m","a","l">>
    [] s = "Sunny"       -> <<"S","u","n","n","y">>
    [] s = "Cloudy"      -> <<"C","l","o","u","d","y">>
    [] s = "Rainy"       -> <<"R","a","i","n","y">>
    [] s = "sunny"       -> <<"s","u","n","n","y">>
    [] s = "cloudy"      -> <<"c","l","o","u","d","y">>
    [] s = "IP43"        -> <<"I","P","4","3">>
    [] s = "ip43"        -> <<"i","p","4","3">>
    [] s = "rain"        -> <<"r","a","i","n">>
    [] s = "none"        -> <<"n","o","n","e">>
    [] s = "clear sky only" -> <<"c","l","e","a","r"," ","s","k","y"," ","o","n","l","y">>
    [] s = "IP20"        -> <<"I","P","2","0">>
    [] s = "None"        -> <<"N","o","n","e">>
    [] s = "Night Ops"   -> <<"N","i","g","h","t"," ","O","p","s">>
    [] s = "IP43 Rain-rated" -> <<"I","P","4","3"," ","R","a","i","n","-","r","a","t","e","d">>
    [] s = "Clear Sky Only" -> <<"C","l","e","a","r"," ","S","k","y"," ","O","n","l","y">>
    [] s = "Windy"       -> <<"W","i","n","d","y">>
    [] s = "bangalore"   -> <<"b","a","n","g","a","l","o","r","e">>
    [] s = "North"       -> <<"N","o","r","t","h">>
    [] s = "assigned"    -> <<"a","s","s","i","g","n","e","d">>
    [] s = ""            -> <<>>

LowerChar(c) ==
  CASE c = "A" -> "a" [] c = "B" -> "b" [] c = "C" -> "c" [] c = "D" -> "d"
    [] c = "G" -> "g" [] c = "I" -> "i" [] c = "L" -> "l" [] c = "M" -> "m"
    [] c = "N" -> "n" [] c = "O" -> "o" [] c = "P" -> "p" [] c = "R" -> "r"
    [] c = "S" -> "s" [] c = "T" -> "t" [] c = "U" -> "u" [] c = "W" -> "w"
    [] OTHER -> c

\* str.lower(), on character sequences
lower(cs) == [i \in DOMAIN cs |-> LowerChar(cs[i])]

\* Python "sub in s", on character sequences
IsSubstring(sub, cs) ==
  \E i \in 0..(Len(cs) - Len(sub)) : SubSeq(cs, i + 1, i + Len(sub)) = sub

\* pandas Series.str.contains(pat, case=False) for one cell
str_contains(cell, pat) == IsSubstring(lower(Chars(pat)), lower(Chars(cell)))

(* ----------------------------- fixtures ------------------------------- *)
\* missions.csv, in store order (read only: the engine never writes it)
missions == <<
  [project_id |-> "M1", required_skills |-> <<"Thermal">>, required_certs |-> <<>>,
   location |-> "Bangalore", start_date |-> 1, end_date |-> 3,
   mission_budget_inr |-> 50, weather_forecast |-> "Sunny"],
  [project_id |-> "M2", required_skills |-> <<"Mapping">>, required_certs |-> <<"DGCA">>,
   location |-> "Bangalore", start_date |-> 2, end_date |-> 4,
   mission_budget_inr |-> 0, weather_forecast |-> "Rainy"],
  [project_id |-> "M3", required_skills |-> <<"Survey", "Inspection", "LiDAR">>,
   required_certs |-> <<"DGCA", "BVLOS">>, location |-> "Mumbai",
   start_date |-> 5, end_date |-> 6,
   mission_budget_inr |-> 30, weather_forecast |-> "Cloudy"],
  [project_id |-> "M4", required_skills |-> <<"Night Ops">>, required_certs |-> <<>>,
   location |-> "Bangalore", start_date |-> 3, end_date |-> Malformed,
   mission_budget_inr |-> 30, weather_forecast |-> "Rainy"],
  [project_id |-> "M5", required_skills |-> NaN, required_certs |-> <<>>,
   location |-> "Bangalore", start_date |-> 1, end_date |-> 1,
   mission_budget_inr |-> 30, weather_forecast |-> "Sunny"],
  [project_id |-> "M6", required_skills |-> <<"Thermal">>, required_certs |-> <<>>,
   location |-> "Bangalore", start_date |-> 1, end_date |-> 2,
   mission_budget_inr |-> NonNumeric, weather_forecast |-> "Sunny"],
  [project_id |-> "M7", required_skills |-> <<"Mapping">>, required_certs |-> <<"DGCA">>,
   location |-> "Bangalore", start_date |-> 1, end_date |-> 1,
   mission_budget_inr |-> 30, weather_forecast |-> "Sunny"] >>

\* pilot_roster.csv as first loaded: everyone Available, nothing assigned
InitialRoster == <<
  [pilot_id |-> "P1", skills |-> <<"Thermal", "Mapping">>, certifications |-> <<"DGCA">>,
   location |-> "Bangalore", daily_rate_inr |-> 10,
   status |-> "Available", current_assignment |-> Dash],
  [pilot_id |-> "P2", skills |-> <<"Mapping">>, certifications |-> <<"DGCA">>,
   location |-> "Bangalore North", daily_rate_inr |-> 20,
   status |-> "Available", current_assignment |-> Dash] >>

\* drone_fleet.csv as first loaded
InitialFleet == <<
  [drone_id |-> "D1", capabilities |-> "RGB, Thermal", location |-> "Bangalore",
   weather_resistance |-> "None", maintenance_due |-> Malformed,
   status |-> "Available", current_assignment |-> Dash],
  [drone_id |-> "D2", capabilities |-> "RGB", location |-> "Bangalore",
   weather_resistance |-> "IP43", maintenance_due |-> 2,
   status |-> "Available", current_assignment |-> Dash] >>

\* the assigned_pilot, assigned_drone and status cells of the missions, with
\* the values _refresh_missions gives them
InitialMissionCells ==
  [i \in DOMAIN missions |->
     [project_id |-> missions[i].project_id, assigned_pilot |-> Dash,
      assigned_drone |-> Dash, status |-> "Pending"]]

MissionIds == {missions[i].project_id : i \in DOMAIN missions}
PilotIds == {InitialRoster[i].pilot_id : i \in DOMAIN InitialRoster}
DroneIds == {InitialFleet[i].drone_id : i \in DOMAIN InitialFleet}

\* ids a caller may pass: known ones and one that is not in the store
MissionArgs == {"M1", "M2", "M9"}
PilotArgs == PilotIds \cup {"P9"}
DroneArgs == DroneIds \cup {"D9"}
\* status strings a caller may pass: every enum value and one outside it
PilotStatusArgs == {"Available", "Assigned", "On Leave", "Unavailable", "Bogus"}
DroneStatusArgs == {"Available", "Assigned", "Maintenance", "Unavailable", "Bogus"}
\* the assignment argument of a status update: omitted, as the agent's
\* update_pilot_status tool calls it
AssignmentArgs == {NoneVal}
\* the optional ids of create_assignment: omitted, a known id, an unknown id
CreatePilotArgs == {NoneVal, "P2", "P9"}
CreateDroneArgs == {NoneVal, "D1", "D9"}

(* ------------------------------ utils.py ------------------------------ *)
\* parse_date gives None for an unparseable cell, and all([...]) is then false
\* mutant: the bounds of the ranges are exclusive
dates_overlap_exclusive(start1, end1, start2, end2) ==
  IF start1 = Malformed \/ end1 = Malformed \/ start2 = Malformed \/ end2 = Malformed
  THEN FALSE
  ELSE start1 < end2 /\ start2 < end1

dates_overlap(start1, end1, start2, end2) ==
  IF start1 = Malformed \/ end1 = Malformed \/ start2 = Malformed \/ end2 = Malformed
  THEN FALSE
  ELSE start1 <= end2 /\ start2 <= end1

\* mutant: the end day is not counted
calculate_mission_duration_exclusive(start_date, end_date) ==
  IF start_date = Malformed \/ end_date = Malformed THEN 0
  ELSE end_date - start_date

calculate_mission_duration(start_date, end_date) ==
  IF start_date = Malformed \/ end_date = Malformed THEN 0
  ELSE (end_date - start_date) + 1

calculate_pilot_cost(daily_rate, start_date, end_date) ==
  daily_rate * calculate_mission_duration(start_date, end_date)

InList(x, l) == \E i \in DOMAIN l : l[i] = x

\* a cell is its token list; pd.isna(cell) gives the empty list
parse_skills(skills_str) == IF skills_str = NaN THEN <<>> ELSE skills_str
parse_certifications(certs_str) == IF certs_str = NaN THEN <<>> ELSE certs_str

\* mutant: one required skill is enough
skills_match_any(pilot_skills, required_skills) ==
  \/ parse_skills(required_skills) = <<>>
  \/ \E i \in DOMAIN parse_skills(required_skills) :
       InList(parse_skills(required_skills)[i], parse_skills(pilot_skills))

skills_match(pilot_skills, required_skills) ==
  \A i \in DOMAIN parse_skills(required_skills) :
     InList(parse_skills(required_skills)[i], parse_skills(pilot_skills))

certifications_match(pilot_certs, required_certs) ==
  \A i \in DOMAIN parse_certifications(required_certs) :
     InList(parse_certifications(required_certs)[i], parse_certifications(pilot_certs))

\* mission_weather.lower() in ["sunny", "cloudy"]
ClearSky(mission_weather) ==
  lower(Chars(mission_weather)) \in {Chars("sunny"), Chars("cloudy")}

\* the classification of a lower-cased, non-empty resistance rating
RatingCompatible(weather_resistance, mission_weather) ==
  IF IsSubstring(Chars("ip43"), weather_resistance)
       \/ IsSubstring(Chars("rain"), weather_resistance)
  THEN TRUE
  ELSE IF IsSubstring(Chars("none"), weather_resistance)
            \/ IsSubstring(Chars("clear sky only"), weather_resistance)
       THEN ClearSky(mission_weather)
       ELSE TRUE

is_weather_compatible(drone_weather_resistance, mission_weather) ==
  IF Falsy(drone_weather_resistance) THEN ClearSky(mission_weather)
  ELSE RatingCompatible(lower(Chars(drone_weather_resistance)), mission_weather)

\* mutant: maintenance is due only after the due day has passed
is_maintenance_due_after(maintenance_due, now) ==
  IF maintenance_due = Malformed THEN FALSE ELSE maintenance_due < now

\* now: the day that datetime.now() falls on; Malformed stands for every
\* cell without a date: NaN, empty, or text that strptime rejects
is_maintenance_due(maintenance_due, now) ==
  IF maintenance_due = Malformed THEN FALSE ELSE maintenance_due <= now

(* --------------------------- sheets_sync.py --------------------------- *)
\* index of the first row whose key column equals id, 0 when there is none
FirstIndex(df, key, id) ==
  IF \E i \in DOMAIN df : df[i][key] = id
  THEN CHOOSE i \in DOMAIN df :
         /\ df[i][key] = id
         /\ \A j \in DOMAIN df : df[j][key] = id => i <= j
  ELSE 0

\* the write of row idx: the status cell always, the assignment cell only
\* when the assignment argument is truthy
WriteRow(df, idx, status, assignment) ==
  IF idx = 0 THEN df
  ELSE [df EXCEPT ![idx] =
          [@ EXCEPT !.status = status,
                    !.current_assignment =
                        IF Falsy(assignment) THEN @ ELSE assignment]]

\* update_pilot_status / update_drone_status on the local CSV
sync_update_pilot_status(roster, pilot_id, status, assignment) ==
  WriteRow(roster, FirstIndex(roster, "pilot_id", pilot_id), status, assignment)

sync_update_drone_status(fleet, drone_id, status, assignment) ==
  WriteRow(fleet, FirstIndex(fleet, "drone_id", drone_id), status, assignment)

(* -------------------------- roster_manager.py ------------------------- *)
PilotValidStatuses == {"Available", "Assigned", "On Leave", "Unavailable"}

HasPilot(roster, pilot_id) == FirstIndex(roster, "pilot_id", pilot_id) # 0
get_pilot_by_id(roster, pilot_id) == roster[FirstIndex(roster, "pilot_id", pilot_id)]

get_current_assignments(roster) ==
  SelectSeq(roster, LAMBDA row : row.current_assignment # Dash)

\* mutant: the status is written without the check against valid_statuses
update_pilot_status_unvalidated(roster, pilot_id, status, assignment) ==
  [ok |-> TRUE,
   roster |-> sync_update_pilot_status(roster, pilot_id, status, assignment)]

calculate_cost(roster, pilot_id, start_date, end_date) ==
  IF ~HasPilot(roster, pilot_id) THEN 0
  ELSE calculate_pilot_cost(get_pilot_by_id(roster, pilot_id).daily_rate_inr,
                            start_date, end_date)

\* returns the method's result and the store it leaves behind
update_pilot_status(roster, pilot_id, status, assignment) ==
  IF status \notin PilotValidStatuses
  THEN [ok |-> FALSE, roster |-> roster]
  ELSE [ok |-> TRUE,
        roster |-> sync_update_pilot_status(roster, pilot_id, status, assignment)]

\* mutant: the current assignments are not consulted
is_pilot_available_by_status(roster, pilot_id, start_date, end_date) ==
  IF ~HasPilot(roster, pilot_id) THEN FALSE
  ELSE get_pilot_by_id(roster, pilot_id).status = "Available"

is_pilot_available(roster, pilot_id, start_date, end_date) ==
  IF ~HasPilot(roster, pilot_id) THEN FALSE
  ELSE IF get_pilot_by_id(roster, pilot_id).status \notin {"Available"} THEN FALSE
  ELSE IF Len(SelectSeq(get_current_assignments(roster),
                        LAMBDA row : row.pilot_id = pilot_id)) > 0
       THEN FALSE
       ELSE TRUE

\* the "if max_budget:" filter of find_matching_pilots
BudgetFilter(df, start_date, end_date, max_budget) ==
  IF max_budget # 0
  THEN SelectSeq(df, LAMBDA row :
         calculate_pilot_cost(row.daily_rate_inr, start_date, end_date) <= max_budget)
  ELSE df

\* the filters of query_pilots; an omitted list and an empty one are both
\* written <<>>, an omitted string is None: "if skills:" skips either

\* mutant: a pilot must have every skill of the filter
SkillsAllFilter(df, skills) ==
  IF skills # <<>>
  THEN SelectSeq(df, LAMBDA row :
         \A i \in DOMAIN skills : InList(skills[i], parse_skills(row.skills)))
  ELSE df

SkillsAnyFilter(df, skills) ==
  IF skills # <<>>
  THEN SelectSeq(df, LAMBDA row :
         \E i \in DOMAIN skills : InList(skills[i], parse_skills(row.skills)))
  ELSE df

CertificationsAnyFilter(df, certifications) ==
  IF certifications # <<>>
  THEN SelectSeq(df, LAMBDA row :
         \E i \in DOMAIN certifications :
            InList(certifications[i], parse_certifications(row.certifications)))
  ELSE df

PilotLocationFilter(df, location) ==
  IF ~Falsy(location)
  THEN SelectSeq(df, LAMBDA row : str_contains(row.location, location))
  ELSE df

PilotStatusFilter(df, status) ==
  IF ~Falsy(status)
  THEN SelectSeq(df, LAMBDA row : str_contains(row.status, status))
  ELSE df

query_pilots(roster, skills, certifications, location, status) ==
  PilotStatusFilter(
    PilotLocationFilter(
      CertificationsAnyFilter(SkillsAnyFilter(roster, skills), certifications),
      location),
    status)

find_matching_pilots(roster, required_skills, required_certs, location, start_date, end_date, max_budget) ==
  BudgetFilter(
    SelectSeq(
      SelectSeq(
        SelectSeq(
          SelectSeq(roster, LAMBDA row : skills_match(row.skills, required_skills)),
          LAMBDA row : certifications_match(row.certifications, required_certs)),
        LAMBDA row : str_contains(row.location, location)),
      LAMBDA row : row.status = "Available"),
    start_date, end_date, max_budget)

(* ------------------------ inventory_manager.py ------------------------ *)
DroneValidStatuses == {"Available", "Assigned", "Maintenance", "Unavailable"}

HasDrone(fleet, drone_id) == FirstIndex(fleet, "drone_id", drone_id) # 0
get_drone_by_id(fleet, drone_id) == fleet[FirstIndex(fleet, "drone_id", drone_id)]

get_deployed_drones(fleet) ==
  SelectSeq(fleet, LAMBDA row : row.current_assignment # Dash)

get_maintenance_due_drones(fleet, now) ==
  SelectSeq(fleet, LAMBDA row : is_maintenance_due(row.maintenance_due, now))

\* mutant: an id that is not in the fleet is reported to the caller
update_drone_status_found(fleet, drone_id, status, assignment) ==
  IF status \notin DroneValidStatuses \/ ~HasDrone(fleet, drone_id)
  THEN [ok |-> FALSE, fleet |-> fleet]
  ELSE [ok |-> TRUE,
        fleet |-> sync_update_drone_status(fleet, drone_id, status, assignment)]

update_drone_status(fleet, drone_id, status, assignment) ==
  IF status \notin DroneValidStatuses
  THEN [ok |-> FALSE, fleet |-> fleet]
  ELSE [ok |-> TRUE,
        fleet |-> sync_update_drone_status(fleet, drone_id, status, assignment)]

\* mutant: a drone that holds an assignment is not available
is_drone_available_unassigned(fleet, drone_id) ==
  IF ~HasDrone(fleet, drone_id) THEN FALSE
  ELSE /\ get_drone_by_id(fleet, drone_id).status = "Available"
       /\ get_drone_by_id(fleet, drone_id).current_assignment = Dash

is_drone_available(fleet, drone_id) ==
  IF ~HasDrone(fleet, drone_id) THEN FALSE
  ELSE get_drone_by_id(fleet, drone_id).status = "Available"

\* the four optional filters of query_drones; capabilities is a list of
\* tokens, and "" for status / location / weather_forecast means "not given"
CapabilityFilter(df, capabilities) ==
  IF Len(capabilities) > 0
  THEN SelectSeq(df, LAMBDA row :
         \E c \in DOMAIN capabilities :
            IsSubstring(Chars(capabilities[c]), Chars(row.capabilities)))
  ELSE df

StatusFilter(df, status) ==
  IF ~Falsy(status)
  THEN SelectSeq(df, LAMBDA row : str_contains(row.status, status))
  ELSE df

LocationFilter(df, location) ==
  IF ~Falsy(location)
  THEN SelectSeq(df, LAMBDA row : str_contains(row.location, location))
  ELSE df

WeatherFilter(df, weather_forecast) ==
  IF ~Falsy(weather_forecast)
  THEN SelectSeq(df, LAMBDA row :
         is_weather_compatible(row.weather_resistance, weather_forecast))
  ELSE df

query_drones(fleet, capabilities, status, location, weather_forecast) ==
  WeatherFilter(
    LocationFilter(
      StatusFilter(CapabilityFilter(fleet, capabilities), status),
      location),
    weather_forecast)

\* required_capabilities: the token list that the caller joined with ","
\* and that split(",") + strip() recovers
find_matching_drones(fleet, required_capabilities, location, weather_forecast) ==
  SelectSeq(query_drones(fleet, required_capabilities, "Available", location,
                         weather_forecast),
            LAMBDA row : ~str_contains(row.status, "Maintenance"))

(* ------------------------ assignment_tracker.py ----------------------- *)
HasMission(project_id) == FirstIndex(missions, "project_id", project_id) # 0
get_mission_by_id(project_id) == missions[FirstIndex(missions, "project_id", project_id)]

\* mutant: the last row of the result instead of the first
LastId(df, key) == IF Len(df) = 0 THEN NoneVal ELSE df[Len(df)][key]

\* df.iloc[0][key], or None for an empty result
FirstId(df, key) == IF Len(df) = 0 THEN NoneVal ELSE df[1][key]

\* the find_matching_pilots call of match_pilot_to_mission
MissionPilots(roster, mission) ==
  find_matching_pilots(roster, mission.required_skills, mission.required_certs,
                       mission.location, mission.start_date, mission.end_date,
                       mission.mission_budget_inr)

\* mutant: falls back to the first pilot of the roster when nothing matches
match_pilot_to_mission_fallback(roster, project_id) ==
  IF ~HasMission(project_id) THEN NoneVal
  ELSE FirstId(MissionPilots(roster, get_mission_by_id(project_id)) \o roster,
               "pilot_id")

\* float(mission.get('mission_budget_inr', ...)) raises ValueError on a cell
\* that is not a number
match_pilot_to_mission(roster, project_id) ==
  IF ~HasMission(project_id) THEN NoneVal
  ELSE IF get_mission_by_id(project_id).mission_budget_inr = NonNumeric THEN Raised
  ELSE FirstId(MissionPilots(roster, get_mission_by_id(project_id)), "pilot_id")

skill_to_capability(skill) ==
  CASE skill = "Thermal" -> "Thermal"
    [] skill = "Mapping" -> "RGB"
    [] skill = "Survey" -> "RGB"
    [] skill = "Inspection" -> "RGB"
    [] skill = "LiDAR" -> "LiDAR"
    [] OTHER -> NoneVal

\* the capabilities of the skills that the lookup maps, in order
MappedCapabilities(skills) ==
  [i \in DOMAIN SelectSeq(skills, LAMBDA s : skill_to_capability(s) # NoneVal) |->
     skill_to_capability(
       SelectSeq(skills, LAMBDA s : skill_to_capability(s) # NoneVal)[i])]

\* "if not required_capabilities: required_capabilities = ['RGB']"
RequiredCapabilities(mapped) == IF mapped = <<>> THEN <<"RGB">> ELSE mapped

\* the find_matching_drones call of match_drone_to_mission
MissionDrones(fleet, mission) ==
  find_matching_drones(
    fleet, RequiredCapabilities(MappedCapabilities(mission.required_skills)),
    mission.location, mission.weather_forecast)

\* mission['required_skills'].split(',') raises AttributeError on a NaN cell
match_drone_to_mission(fleet, project_id) ==
  IF ~HasMission(project_id) THEN NoneVal
  ELSE IF get_mission_by_id(project_id).required_skills = NaN THEN Raised
  ELSE FirstId(MissionDrones(fleet, get_mission_by_id(project_id)), "drone_id")

\* mutant: the pilot is committed without the availability check
assign_pilot_to_mission_unchecked(roster, pilot_id, project_id) ==
  IF ~HasMission(project_id) THEN [ok |-> FALSE, roster |-> roster]
  ELSE update_pilot_status(roster, pilot_id, "Assigned", project_id)

assign_pilot_to_mission(roster, pilot_id, project_id) ==
  IF ~HasMission(project_id) THEN [ok |-> FALSE, roster |-> roster]
  ELSE IF ~is_pilot_available(roster, pilot_id,
                              get_mission_by_id(project_id).start_date,
                              get_mission_by_id(project_id).end_date)
       THEN [ok |-> FALSE, roster |-> roster]
       ELSE update_pilot_status(roster, pilot_id, "Assigned", project_id)

\* mutant: the drone is committed without the availability check
assign_drone_to_mission_unchecked(fleet, drone_id, project_id) ==
  IF ~HasMission(project_id) THEN [ok |-> FALSE, fleet |-> fleet]
  ELSE update_drone_status(fleet, drone_id, "Assigned", project_id)

assign_drone_to_mission(fleet, drone_id, project_id) ==
  IF ~HasMission(project_id) THEN [ok |-> FALSE, fleet |-> fleet]
  ELSE IF ~is_drone_available(fleet, drone_id)
       THEN [ok |-> FALSE, fleet |-> fleet]
       ELSE update_drone_status(fleet, drone_id, "Assigned", project_id)

\* the dict that create_assignment / handle_urgent_reassignment return
Failure(error) ==
  [success |-> FALSE, error |-> error, pilot_id |-> NoneVal,
   drone_id |-> NoneVal, project_id |-> NoneVal]

Success(pilot_id, drone_id, project_id) ==
  [success |-> TRUE, error |-> NoneVal, pilot_id |-> pilot_id,
   drone_id |-> drone_id, project_id |-> project_id]

\* what a call leaves behind: its result, the two stores, and the values of
\* its local variables pilot_id and drone_id when it returned
Outcome(result, roster, fleet, pilot_id, drone_id) ==
  [result |-> result, roster |-> roster, fleet |-> fleet,
   pilot_id |-> pilot_id, drone_id |-> drone_id]

\* mutant: no compensating action after a failed drone commit
rollback_pilot_missing(roster, pilot_id) == roster

\* the rollback of the pilot commit after a failed drone commit
rollback_pilot(roster, pilot_id) ==
  update_pilot_status(roster, pilot_id, "Available", NoneVal).roster

\* create_assignment is modelled as its five steps, each handing the values
\* of the locals to the next

\* "Assign drone", with the rollback of the pilot commit when it fails;
\* roster is the roster after the pilot commit
AfterDroneCommit(roster, drone_assigned, project_id, pilot_id, drone_id) ==
  IF ~drone_assigned.ok
  THEN Outcome(Failure("Failed to assign drone"), rollback_pilot(roster, pilot_id),
               drone_assigned.fleet, pilot_id, drone_id)
  ELSE Outcome(Success(pilot_id, drone_id, project_id), roster,
               drone_assigned.fleet, pilot_id, drone_id)

\* "Assign pilot"
AfterPilotCommit(pilot_assigned, fleet, project_id, pilot_id, drone_id) ==
  IF ~pilot_assigned.ok
  THEN Outcome(Failure("Failed to assign pilot"), pilot_assigned.roster, fleet,
               pilot_id, drone_id)
  ELSE AfterDroneCommit(pilot_assigned.roster,
                        assign_drone_to_mission(fleet, drone_id, project_id),
                        project_id, pilot_id, drone_id)

\* the drone id is supplied or auto-matched
WithDrone(roster, fleet, project_id, pilot_id, drone_id) ==
  IF drone_id = Raised
  THEN Outcome(Failure(Raised), roster, fleet, pilot_id, NoneVal)
  ELSE IF Falsy(drone_id)
  THEN Outcome(Failure("No suitable drone found"), roster, fleet, pilot_id, drone_id)
  ELSE AfterPilotCommit(assign_pilot_to_mission(roster, pilot_id, project_id),
                        fleet, project_id, pilot_id, drone_id)

\* the pilot id is supplied or auto-matched
WithPilot(roster, fleet, project_id, pilot_id, drone_arg) ==
  IF pilot_id = Raised
  THEN Outcome(Failure(Raised), roster, fleet, NoneVal, drone_arg)
  ELSE IF Falsy(pilot_id)
  THEN Outcome(Failure("No suitable pilot found"), roster, fleet, pilot_id, drone_arg)
  ELSE WithDrone(roster, fleet, project_id, pilot_id,
                 IF Falsy(drone_arg) THEN match_drone_to_mission(fleet, project_id)
                 ELSE drone_arg)

\* mutant: a supplied pilot id is used only if the pilot matches the mission
create_assignment_steps_matched(roster, fleet, project_id, pilot_arg, drone_arg) ==
  WithPilot(roster, fleet, project_id,
            IF Falsy(pilot_arg) THEN match_pilot_to_mission(roster, project_id)
            ELSE IF \E i \in DOMAIN MissionPilots(roster, get_mission_by_id(project_id)) :
                      MissionPilots(roster, get_mission_by_id(project_id))[i].pilot_id
                        = pilot_arg
            THEN pilot_arg
            ELSE NoneVal,
            drone_arg)

\* create_assignment from "Auto-match if not provided" on
create_assignment_steps(roster, fleet, project_id, pilot_arg, drone_arg) ==
  WithPilot(roster, fleet, project_id,
            IF Falsy(pilot_arg) THEN match_pilot_to_mission(roster, project_id)
            ELSE pilot_arg,
            drone_arg)

\* mutant: the mission lookup at the head of create_assignment is skipped
create_assignment_unchecked(roster, fleet, project_id, pilot_arg, drone_arg) ==
  create_assignment_steps(roster, fleet, project_id, pilot_arg, drone_arg)

create_assignment(roster, fleet, project_id, pilot_arg, drone_arg) ==
  IF ~HasMission(project_id)
  THEN Outcome(Failure("Mission not found"), roster, fleet, pilot_arg, drone_arg)
  ELSE create_assignment_steps(roster, fleet, project_id, pilot_arg, drone_arg)

\* the rows of the current holders whose assignment is the mission
Holders(current, project_id) ==
  SelectSeq(current, LAMBDA row : row.current_assignment = project_id)

\* the "free up current assignments" step of handle_urgent_reassignment
free_pilot(roster, assigned_pilot) ==
  IF Len(assigned_pilot) > 0
  THEN update_pilot_status(roster, assigned_pilot[1].pilot_id, "Available",
                           NoneVal).roster
  ELSE roster

free_drone(fleet, assigned_drone) ==
  IF Len(assigned_drone) > 0
  THEN update_drone_status(fleet, assigned_drone[1].drone_id, "Available",
                           NoneVal).fleet
  ELSE fleet

\* "return self.create_assignment(project_id)" on the freed stores; the
\* value also carries the stores as they were when it was invoked
CreateFresh(freed_roster, freed_fleet, project_id) ==
  [out |-> create_assignment(freed_roster, freed_fleet, project_id, NoneVal, NoneVal),
   invoked |-> TRUE, roster |-> freed_roster, fleet |-> freed_fleet]

handle_urgent_reassignment(roster, fleet, project_id) ==
  IF ~HasMission(project_id)
  THEN [out |-> Outcome(Failure("Mission not found"), roster, fleet, NoneVal, NoneVal),
        invoked |-> FALSE, roster |-> roster, fleet |-> fleet]
  ELSE CreateFresh(
         free_pilot(roster, Holders(get_current_assignments(roster), project_id)),
         free_drone(fleet, Holders(get_deployed_drones(fleet), project_id)),
         project_id)

(* ------------------------ conflict_detector.py ------------------------ *)
\* A scan appends findings in loop order.  Each loop iteration is modelled
\* as the finding it may append: [found, entry]; the report is the entries
\* of the iterations that found something, in iteration order.
NoFinding == [found |-> FALSE]
\* an iteration that ended in an uncaught exception, and the outcome of a
\* scan that one of its iterations ended so: no report is returned
RaisedIteration == [found |-> FALSE, raised |-> TRUE]
RaisedReport == <<[type |-> Raised]>>
\* the outcome of detect_all_conflicts when one of its scans ended so
RaisedSummary == [type |-> Raised]
Finding(entry) == [found |-> TRUE, entry |-> entry]
Entries(found) == [k \in DOMAIN found |-> found[k].entry]
Findings(iterations) == Entries(SelectSeq(iterations, LAMBDA it : it.found))

\* mutant: every ordered pair of distinct rows is compared
BookingPairsOrdered(assigns, key) ==
  {p \in (DOMAIN assigns) \X (DOMAIN assigns) :
     /\ p[1] # p[2]
     /\ assigns[p[1]][key] = assigns[p[2]][key]
     /\ HasMission(assigns[p[1]].current_assignment)
     /\ HasMission(assigns[p[2]].current_assignment)
     /\ dates_overlap(get_mission_by_id(assigns[p[1]].current_assignment).start_date,
                      get_mission_by_id(assigns[p[1]].current_assignment).end_date,
                      get_mission_by_id(assigns[p[2]].current_assignment).start_date,
                      get_mission_by_id(assigns[p[2]].current_assignment).end_date)}

\* the rows i < j of one actor whose missions are both in the store and
\* overlap: the iterations of the nested loops that append an entry
BookingPairs(assigns, key) ==
  {p \in (DOMAIN assigns) \X (DOMAIN assigns) :
     /\ p[1] < p[2]
     /\ assigns[p[1]][key] = assigns[p[2]][key]
     /\ HasMission(assigns[p[1]].current_assignment)
     /\ HasMission(assigns[p[2]].current_assignment)
     /\ dates_overlap(get_mission_by_id(assigns[p[1]].current_assignment).start_date,
                      get_mission_by_id(assigns[p[1]].current_assignment).end_date,
                      get_mission_by_id(assigns[p[2]].current_assignment).start_date,
                      get_mission_by_id(assigns[p[2]].current_assignment).end_date)}

\* position of a pair in the loops: actors in order of first appearance
\* (unique()), then the first row, then the second
PairRank(assigns, key, p) ==
  (FirstIndex(assigns, key, assigns[p[1]][key]) * (Len(assigns) + 1)
     + p[1]) * (Len(assigns) + 1) + p[2]

BookingEntry(assigns, key, entity_type, p) ==
  [type |-> "double_booking", entity_type |-> entity_type,
   entity_id |-> assigns[p[1]][key],
   assignments |-> <<assigns[p[1]].current_assignment,
                     assigns[p[2]].current_assignment>>,
   severity |-> "high"]

\* the entries of the pairs, in loop order
Bookings(assigns, key, entity_type, pairs) ==
  [k \in 1..Cardinality(pairs) |->
     BookingEntry(assigns, key, entity_type,
       CHOOSE p \in pairs :
         Cardinality({q \in pairs :
                        PairRank(assigns, key, q) < PairRank(assigns, key, p)})
           = k - 1)]

ActorBookings(assigns, key, entity_type) ==
  Bookings(assigns, key, entity_type, BookingPairs(assigns, key))

detect_double_bookings(roster, fleet) ==
  ActorBookings(get_current_assignments(roster), "pilot_id", "pilot")
    \o ActorBookings(get_deployed_drones(fleet), "drone_id", "drone")

\* the loop head shared by the per-assignment scans: the row's mission is
\* in the store and the holder is found by id
Scannable(has_holder, assignment) ==
  HasMission(assignment.current_assignment) /\ has_holder

SkillFinding(pilot, mission, project_id) ==
  IF ~skills_match(pilot.skills, mission.required_skills)
  THEN Finding([type |-> "skill_mismatch", pilot_id |-> pilot.pilot_id,
                project_id |-> project_id,
                required_skills |-> mission.required_skills,
                pilot_skills |-> pilot.skills, severity |-> "high"])
  ELSE NoFinding

CertificationFinding(pilot, mission, project_id) ==
  IF ~certifications_match(pilot.certifications, mission.required_certs)
  THEN Finding([type |-> "certification_mismatch", pilot_id |-> pilot.pilot_id,
                project_id |-> project_id,
                required_certs |-> mission.required_certs,
                pilot_certs |-> pilot.certifications, severity |-> "high"])
  ELSE NoFinding

\* mutant: the certifications check is left out
SkillIterationSkillsOnly(roster, assignment, skills_check) ==
  IF ~Scannable(HasPilot(roster, assignment.pilot_id), assignment) THEN NoFinding
  ELSE IF skills_check
  THEN SkillFinding(get_pilot_by_id(roster, assignment.pilot_id),
                    get_mission_by_id(assignment.current_assignment),
                    assignment.current_assignment)
  ELSE NoFinding

\* iteration k: row (k + 1) \div 2, its skills check (k odd) or its
\* certifications check (k even)
SkillIteration(roster, assignment, skills_check) ==
  IF ~Scannable(HasPilot(roster, assignment.pilot_id), assignment) THEN NoFinding
  ELSE IF skills_check
  THEN SkillFinding(get_pilot_by_id(roster, assignment.pilot_id),
                    get_mission_by_id(assignment.current_assignment),
                    assignment.current_assignment)
  ELSE CertificationFinding(get_pilot_by_id(roster, assignment.pilot_id),
                            get_mission_by_id(assignment.current_assignment),
                            assignment.current_assignment)

SkillScan(roster, pilot_assignments) ==
  Findings([k \in 1..(2 * Len(pilot_assignments)) |->
              SkillIteration(roster, pilot_assignments[(k + 1) \div 2], k % 2 = 1)])

detect_skill_mismatches(roster) ==
  SkillScan(roster, get_current_assignments(roster))

\* "pilot_loc and mission_loc and pilot_loc != mission_loc", on lower-cased
\* character sequences
LocationsDiffer(entity_loc, mission_loc) ==
  entity_loc # <<>> /\ mission_loc # <<>> /\ entity_loc # mission_loc

LocationFinding(entity_type, entity_id, entity_location, mission, project_id) ==
  IF LocationsDiffer(lower(Chars(entity_location)), lower(Chars(mission.location)))
  THEN Finding([type |-> "location_mismatch", entity_type |-> entity_type,
                entity_id |-> entity_id, project_id |-> project_id,
                entity_location |-> entity_location,
                mission_location |-> mission.location, severity |-> "medium"])
  ELSE NoFinding

\* the drone check inside the pilot loop: the first deployed drone whose
\* assignment is the pilot row's mission
DroneLocationFinding(drone_assign, mission, project_id) ==
  IF Len(drone_assign) = 0 THEN NoFinding
  ELSE LocationFinding("drone", drone_assign[1].drone_id, drone_assign[1].location,
                       mission, project_id)

\* iteration k: row (k + 1) \div 2, the pilot's location (k odd) or the
\* location of the drone on the same mission (k even)
LocationIteration(roster, drone_assignments, assignment, pilot_check) ==
  IF ~Scannable(HasPilot(roster, assignment.pilot_id), assignment) THEN NoFinding
  ELSE IF pilot_check
  THEN LocationFinding("pilot", assignment.pilot_id,
                       get_pilot_by_id(roster, assignment.pilot_id).location,
                       get_mission_by_id(assignment.current_assignment),
                       assignment.current_assignment)
  ELSE DroneLocationFinding(
         Holders(drone_assignments, assignment.current_assignment),
         get_mission_by_id(assignment.current_assignment),
         assignment.current_assignment)

LocationScan(roster, pilot_assignments, drone_assignments) ==
  Findings([k \in 1..(2 * Len(pilot_assignments)) |->
              LocationIteration(roster, drone_assignments,
                                pilot_assignments[(k + 1) \div 2], k % 2 = 1)])

detect_location_mismatches(roster, fleet) ==
  LocationScan(roster, get_current_assignments(roster), get_deployed_drones(fleet))

\* mission.get('budget', mission.get('mission_budget_inr', 0))
mission_budget_of(mission) ==
  IF "budget" \in DOMAIN mission THEN mission.budget
  ELSE IF "mission_budget_inr" \in DOMAIN mission THEN mission.mission_budget_inr
  ELSE 0

\* mutant: the overrun is reported for a mission without a budget too
BudgetFindingAnyBudget(pilot_id, project_id, mission_budget, pilot_cost) ==
  IF pilot_cost > mission_budget
  THEN Finding([type |-> "budget_overrun", pilot_id |-> pilot_id,
                project_id |-> project_id, mission_budget |-> mission_budget,
                pilot_cost |-> pilot_cost, overrun |-> pilot_cost - mission_budget,
                severity |-> "medium"])
  ELSE NoFinding

BudgetFinding(pilot_id, project_id, mission_budget, pilot_cost) ==
  IF mission_budget > 0 /\ pilot_cost > mission_budget
  THEN Finding([type |-> "budget_overrun", pilot_id |-> pilot_id,
                project_id |-> project_id, mission_budget |-> mission_budget,
                pilot_cost |-> pilot_cost, overrun |-> pilot_cost - mission_budget,
                severity |-> "medium"])
  ELSE NoFinding

\* float(mission.get('budget', ...)) is outside any try: a cell that is not
\* a number ends the loop, and the scan, in a ValueError
BudgetIteration(roster, assignment) ==
  IF ~Scannable(HasPilot(roster, assignment.pilot_id), assignment) THEN NoFinding
  ELSE IF mission_budget_of(get_mission_by_id(assignment.current_assignment)) = NonNumeric
  THEN RaisedIteration
  ELSE BudgetFinding(
         assignment.pilot_id, assignment.current_assignment,
         mission_budget_of(get_mission_by_id(assignment.current_assignment)),
         calculate_cost(roster, assignment.pilot_id,
                        get_mission_by_id(assignment.current_assignment).start_date,
                        get_mission_by_id(assignment.current_assignment).end_date))

BudgetScan(roster, pilot_assignments) ==
  IF \E k \in DOMAIN pilot_assignments :
       BudgetIteration(roster, pilot_assignments[k]) = RaisedIteration
  THEN RaisedReport
  ELSE Findings([k \in DOMAIN pilot_assignments |->
                   BudgetIteration(roster, pilot_assignments[k])])

detect_budget_overruns(roster) ==
  BudgetScan(roster, get_current_assignments(roster))

\* mutant: the drone's rating is not consulted
WeatherFindingByForecast(drone, mission, project_id) ==
  IF ~ClearSky(mission.weather_forecast)
  THEN Finding([type |-> "weather_risk", drone_id |-> drone.drone_id,
                project_id |-> project_id,
                drone_weather_resistance |-> drone.weather_resistance,
                mission_weather |-> mission.weather_forecast, severity |-> "high"])
  ELSE NoFinding

WeatherFinding(drone, mission, project_id) ==
  IF ~is_weather_compatible(drone.weather_resistance, mission.weather_forecast)
  THEN Finding([type |-> "weather_risk", drone_id |-> drone.drone_id,
                project_id |-> project_id,
                drone_weather_resistance |-> drone.weather_resistance,
                mission_weather |-> mission.weather_forecast, severity |-> "high"])
  ELSE NoFinding

WeatherIteration(fleet, assignment) ==
  IF ~Scannable(HasDrone(fleet, assignment.drone_id), assignment) THEN NoFinding
  ELSE WeatherFinding(get_drone_by_id(fleet, assignment.drone_id),
                      get_mission_by_id(assignment.current_assignment),
                      assignment.current_assignment)

WeatherScan(fleet, drone_assignments) ==
  Findings([k \in DOMAIN drone_assignments |->
              WeatherIteration(fleet, drone_assignments[k])])

detect_weather_risks(fleet) ==
  WeatherScan(fleet, get_deployed_drones(fleet))

\* assigned: the deployed rows with the due drone's id
MaintenanceFinding(drone, assigned) ==
  IF Len(assigned) > 0
  THEN Finding([type |-> "maintenance_due", drone_id |-> drone.drone_id,
                maintenance_due_date |-> drone.maintenance_due,
                current_assignment |-> assigned[1].current_assignment,
                severity |-> "high"])
  ELSE NoFinding

MaintenanceScan(maintenance_due, drone_assignments) ==
  Findings([k \in DOMAIN maintenance_due |->
              MaintenanceFinding(
                maintenance_due[k],
                SelectSeq(drone_assignments,
                          LAMBDA row : row.drone_id = maintenance_due[k].drone_id))])

detect_maintenance_issues(fleet, now) ==
  MaintenanceScan(get_maintenance_due_drones(fleet, now), get_deployed_drones(fleet))

\* the dict is built only if each of the six scans returns
detect_all_conflicts(roster, fleet, now) ==
  IF detect_budget_overruns(roster) = RaisedReport THEN RaisedSummary
  ELSE
  [double_bookings |-> detect_double_bookings(roster, fleet),
   skill_mismatches |-> detect_skill_mismatches(roster),
   location_mismatches |-> detect_location_mismatches(roster, fleet),
   budget_overruns |-> detect_budget_overruns(roster),
   weather_risks |-> detect_weather_risks(fleet),
   maintenance_issues |-> detect_maintenance_issues(fleet, now)]

(* --------------------------- state machine ---------------------------- *)
\* last: the most recent operation, its arguments, what it returned, the
\* stores when it started (pre_*), and for create_assignment (also when run
\* inside handle_urgent_reassignment) the stores when it was invoked (call_*)
Record(op, project_id, pilot_arg, drone_arg, id, status, assignment, ok, out, invoked, call_roster, call_fleet) ==
  [op |-> op, project_id |-> project_id, pilot_arg |-> pilot_arg,
   drone_arg |-> drone_arg, id |-> id, status |-> status,
   assignment |-> assignment, ok |-> ok, result |-> out.result,
   pilot_id |-> out.pilot_id, drone_id |-> out.drone_id, invoked |-> invoked,
   call_roster |-> call_roster, call_fleet |-> call_fleet,
   pre_roster |-> pilot_roster, pre_fleet |-> drone_fleet]

NoOutcome == Outcome(Failure(NoneVal), <<>>, <<>>, NoneVal, NoneVal)

Init ==
  /\ pilot_roster = InitialRoster
  /\ drone_fleet = InitialFleet
  /\ mission_cells = InitialMissionCells
  /\ steps = 0
  /\ last = [op |-> "init", project_id |-> NoneVal, pilot_arg |-> NoneVal,
             drone_arg |-> NoneVal, id |-> NoneVal, status |-> NoneVal,
             assignment |-> NoneVal, ok |-> FALSE, result |-> Failure(NoneVal),
             pilot_id |-> NoneVal, drone_id |-> NoneVal, invoked |-> FALSE,
             call_roster |-> <<>>, call_fleet |-> <<>>,
             pre_roster |-> InitialRoster, pre_fleet |-> InitialFleet]

\* mutant: a successful operation also writes the pilot and the drone into
\* the mission's row
DoneAndRecorded(roster, fleet, record) ==
  /\ pilot_roster' = roster
  /\ drone_fleet' = fleet
  /\ mission_cells' =
       [i \in DOMAIN mission_cells |->
          IF record.ok /\ mission_cells[i].project_id = record.project_id
          THEN [mission_cells[i] EXCEPT !.assigned_pilot = record.pilot_id,
                                        !.assigned_drone = record.drone_id]
          ELSE mission_cells[i]]
  /\ last' = record
  /\ steps' = steps + 1

\* the operation has run: the stores it leaves and its record
Done(roster, fleet, record) ==
  /\ pilot_roster' = roster
  /\ drone_fleet' = fleet
  /\ UNCHANGED mission_cells
  /\ last' = record
  /\ steps' = steps + 1

Created(project_id, pilot_arg, drone_arg, out) ==
  Done(out.roster, out.fleet,
       Record("create_assignment", project_id, pilot_arg, drone_arg, NoneVal,
              NoneVal, NoneVal, out.result.success, out, TRUE,
              pilot_roster, drone_fleet))

Reassigned(project_id, r) ==
  Done(r.out.roster, r.out.fleet,
       Record("handle_urgent_reassignment", project_id, NoneVal, NoneVal, NoneVal,
              NoneVal, NoneVal, r.out.result.success, r.out, r.invoked,
              r.roster, r.fleet))

PilotUpdated(pilot_id, status, assignment, r) ==
  Done(r.roster, drone_fleet,
       Record("update_pilot_status", NoneVal, NoneVal, NoneVal, pilot_id, status,
              assignment, r.ok, NoOutcome, FALSE, <<>>, <<>>))

DroneUpdated(drone_id, status, assignment, r) ==
  Done(pilot_roster, r.fleet,
       Record("update_drone_status", NoneVal, NoneVal, NoneVal, drone_id, status,
              assignment, r.ok, NoOutcome, FALSE, <<>>, <<>>))

CreateAssignment ==
  /\ steps < MaxSteps
  /\ \E project_id \in MissionArgs, pilot_arg \in CreatePilotArgs,
        drone_arg \in CreateDroneArgs :
       Created(project_id, pilot_arg, drone_arg,
               create_assignment(pilot_roster, drone_fleet, project_id,
                                 pilot_arg, drone_arg))

HandleUrgentReassignment ==
  /\ steps < MaxSteps
  /\ \E project_id \in MissionArgs :
       Reassigned(project_id,
                  handle_urgent_reassignment(pilot_roster, drone_fleet, project_id))

UpdatePilotStatus ==
  /\ steps < MaxSteps
  /\ \E pilot_id \in PilotArgs, status \in PilotStatusArgs,
        assignment \in AssignmentArgs :
       PilotUpdated(pilot_id, status, assignment,
                    update_pilot_status(pilot_roster, pilot_id, status, assignment))

UpdateDroneStatus ==
  /\ steps < MaxSteps
  /\ \E drone_id \in DroneArgs, status \in DroneStatusArgs,
        assignment \in AssignmentArgs :
       DroneUpdated(drone_id, status, assignment,
                    update_drone_status(drone_fleet, drone_id, status, assignment))

Next ==
  \/ CreateAssignment
  \/ HandleUrgentReassignment
  \/ UpdatePilotStatus
  \/ UpdateDroneStatus

Spec == Init /\ [][Next]_vars

\* the assignment operations alone, on the store as first loaded: a single
\* writer that never calls the status updates directly
AssignNext ==
  \/ CreateAssignment
  \/ HandleUrgentReassignment

AssignSpec == Init /\ [][AssignNext]_vars

\* create_assignment alone, called again and again by one writer
CreateSpec == Init /\ [][CreateAssignment]_vars

(* ------------------------- the read-only queries ---------------------- *)
\* The queries of the roster manager, the inventory manager and the
\* assignment tracker, asked of every store that status updates can leave
\* behind: for each record a status of the enum and an assignment cell that
\* is empty or holds a mission, the pairing a plain status update leaves
\* (status rewritten, assignment kept) included.
PilotCells ==
  {<<"Available", Dash>>, <<"Available", "M1">>, <<"Assigned", "M1">>,
   <<"On Leave", Dash>>, <<"Unavailable", Dash>>}

DroneCells ==
  {<<"Available", Dash>>, <<"Available", "M1">>, <<"Assigned", "M1">>,
   <<"Maintenance", Dash>>, <<"Unavailable", Dash>>}

\* df with row i's status and current_assignment cells set to cells[i]
WithCells(df, cells) ==
  [i \in DOMAIN df |->
     [df[i] EXCEPT !.status = cells[i][1], !.current_assignment = cells[i][2]]]

QueryRosters ==
  {WithCells(InitialRoster, cells) : cells \in [DOMAIN InitialRoster -> PilotCells]}

QueryFleets ==
  {WithCells(InitialFleet, cells) : cells \in [DOMAIN InitialFleet -> DroneCells]}

\* the arguments the queries are asked with
QueryMissionArgs == {"M1", "M2", "M3", "M4", "M5", "M9"}
WindowArgs == {<<1, 3>>, <<5, 6>>, <<Malformed, 2>>}
SkillArgs == {<<"Thermal">>, <<"Mapping">>}
CertArgs == {<<>>, <<"DGCA">>}
LocationArgs == {"Bangalore", "Mumbai"}
BudgetArgs == {0, 30, 50}
CapabilityArgs == {<<"RGB">>, <<"Thermal">>, <<"LiDAR", "Thermal">>}
WeatherArgs == {"Sunny", "Rainy"}
\* the filters of query_pilots: omitted or given, a list of several values,
\* a pattern in another case than the cells, a status that is part of another
SkillFilterArgs == {<<>>, <<"Survey", "Mapping">>}
CertFilterArgs == {<<>>, <<"BVLOS", "DGCA">>}
LocationFilterArgs == {NoneVal, "bangalore", "North"}
StatusFilterArgs == {NoneVal, "Available", "assigned"}

\* no query reads both stores, so one store is varied at a time
QueryInit ==
  /\ \/ pilot_roster \in QueryRosters /\ drone_fleet = InitialFleet
     \/ pilot_roster = InitialRoster /\ drone_fleet \in QueryFleets
  /\ mission_cells = InitialMissionCells
  /\ steps = 0
  /\ last = [op |-> "init", args |-> <<>>, result |-> NoneVal,
             pre_roster |-> pilot_roster, pre_fleet |-> drone_fleet]

\* a query has run: it wrote nothing, and returned result
Asked(op, args, result) ==
  /\ last' = [op |-> op, args |-> args, result |-> result,
              pre_roster |-> pilot_roster, pre_fleet |-> drone_fleet]
  /\ steps' = steps + 1
  /\ UNCHANGED <<pilot_roster, drone_fleet, mission_cells>>

IsPilotAvailable ==
  /\ steps < MaxQueries
  /\ \E pilot_id \in PilotArgs, window \in WindowArgs :
       Asked("is_pilot_available",
             [pilot_id |-> pilot_id, start_date |-> window[1], end_date |-> window[2]],
             is_pilot_available(pilot_roster, pilot_id, window[1], window[2]))

IsDroneAvailable ==
  /\ steps < MaxQueries
  /\ \E drone_id \in DroneArgs :
       Asked("is_drone_available", [drone_id |-> drone_id],
             is_drone_available(drone_fleet, drone_id))

QueryPilots ==
  /\ steps < MaxQueries
  /\ \E skills \in SkillFilterArgs, certifications \in CertFilterArgs,
        location \in LocationFilterArgs, status \in StatusFilterArgs :
       Asked("query_pilots",
             [skills |-> skills, certifications |-> certifications,
              location |-> location, status |-> status],
             query_pilots(pilot_roster, skills, certifications, location, status))

FindMatchingPilots ==
  /\ steps < MaxQueries
  /\ \E required_skills \in SkillArgs, required_certs \in CertArgs,
        location \in LocationArgs, window \in WindowArgs, max_budget \in BudgetArgs :
       Asked("find_matching_pilots",
             [required_skills |-> required_skills, required_certs |-> required_certs,
              location |-> location, start_date |-> window[1],
              end_date |-> window[2], max_budget |-> max_budget],
             find_matching_pilots(pilot_roster, required_skills, required_certs,
                                  location, window[1], window[2], max_budget))

FindMatchingDrones ==
  /\ steps < MaxQueries
  /\ \E required_capabilities \in CapabilityArgs, location \in LocationArgs,
        weather_forecast \in WeatherArgs :
       Asked("find_matching_drones",
             [required_capabilities |-> required_capabilities,
              location |-> location, weather_forecast |-> weather_forecast],
             find_matching_drones(drone_fleet, required_capabilities, location,
                                  weather_forecast))

MatchPilotToMission ==
  /\ steps < MaxQueries
  /\ \E project_id \in QueryMissionArgs :
       Asked("match_pilot_to_mission", [project_id |-> project_id],
             match_pilot_to_mission(pilot_roster, project_id))

MatchDroneToMission ==
  /\ steps < MaxQueries
  /\ \E project_id \in QueryMissionArgs :
       Asked("match_drone_to_mission", [project_id |-> project_id],
             match_drone_to_mission(drone_fleet, project_id))

QueryNext ==
  \/ QueryPilots
  \/ IsPilotAvailable
  \/ IsDroneAvailable
  \/ FindMatchingPilots
  \/ FindMatchingDrones
  \/ MatchPilotToMission
  \/ MatchDroneToMission

QuerySpec == QueryInit /\ [][QueryNext]_vars

(* -------------------------- the conflict scans ------------------------ *)
\* The scans read stores that the engine did not write alone: the backing
\* sheet may list one pilot or drone in several rows, each row holding one
\* assignment.  The stores scanned are built from the fixture records: the
\* record of each row, and the assignments the row may hold.
ScanPilotRows == <<1, 2, 2, 2>>
ScanPilotHoldings ==
  <<{Dash, "M1"}, {"M1", "M2", "M4"}, {Dash, "M2", "M3", "M9"}, {Dash, "M5"}>>

ScanDroneRows == <<1, 2, 2>>
ScanDroneHoldings == <<{Dash, "M2"}, {Dash, "M1"}, {Dash, "M2", "M3"}>>

\* the row as it stands when it holds the assignment
Holding(row, assignment) ==
  [row EXCEPT !.status = IF assignment = Dash THEN "Available" ELSE "Assigned",
              !.current_assignment = assignment]

\* the stores with row i a copy of record rows[i] holding one of holdings[i]
ScanStores(records, rows, holdings) ==
  {[i \in DOMAIN rows |-> Holding(records[rows[i]], held[i])] :
     held \in {h \in [DOMAIN rows -> UNION {holdings[i] : i \in DOMAIN rows}] :
                \A i \in DOMAIN rows : h[i] \in holdings[i]}}

ScanRosters == ScanStores(InitialRoster, ScanPilotRows, ScanPilotHoldings)
ScanFleets == ScanStores(InitialFleet, ScanDroneRows, ScanDroneHoldings)

\* the days datetime.now() may fall on; D2's maintenance is due on day 2
ClockDays == {1, 2}

NoScan == [op |-> "init", now |-> 1, result |-> NoneVal]

ScanInit ==
  /\ pilot_roster \in ScanRosters
  /\ drone_fleet \in ScanFleets
  /\ mission_cells = InitialMissionCells
  /\ steps = 0
  /\ last = [op |-> "init", now |-> 1, result |-> NoneVal, prev |-> NoScan,
             pre_roster |-> pilot_roster, pre_fleet |-> drone_fleet]

\* mutant: the scan also frees the pilots it looked at
ScannedAndFreed(op, now, result) ==
  /\ last' = [op |-> op, now |-> now, result |-> result,
              prev |-> [op |-> last.op, now |-> last.now, result |-> last.result],
              pre_roster |-> pilot_roster, pre_fleet |-> drone_fleet]
  /\ steps' = steps + 1
  /\ pilot_roster' = [i \in DOMAIN pilot_roster |-> Holding(pilot_roster[i], Dash)]
  /\ UNCHANGED <<drone_fleet, mission_cells>>

\* a scan has run: it wrote nothing and returned result; now is the latest
\* reading of the clock, and prev is the scan before this one
Scanned(op, now, result) ==
  /\ last' = [op |-> op, now |-> now, result |-> result,
              prev |-> [op |-> last.op, now |-> last.now, result |-> last.result],
              pre_roster |-> pilot_roster, pre_fleet |-> drone_fleet]
  /\ steps' = steps + 1
  /\ UNCHANGED <<pilot_roster, drone_fleet, mission_cells>>

\* the readings datetime.now() can give: time does not run backwards
Clock == {now \in ClockDays : now >= last.now}

DetectDoubleBookings ==
  /\ steps < MaxScans
  /\ Scanned("detect_double_bookings", last.now,
          detect_double_bookings(pilot_roster, drone_fleet))

DetectSkillMismatches ==
  /\ steps < MaxScans
  /\ Scanned("detect_skill_mismatches", last.now, detect_skill_mismatches(pilot_roster))

DetectLocationMismatches ==
  /\ steps < MaxScans
  /\ Scanned("detect_location_mismatches", last.now,
          detect_location_mismatches(pilot_roster, drone_fleet))

DetectBudgetOverruns ==
  /\ steps < MaxScans
  /\ Scanned("detect_budget_overruns", last.now, detect_budget_overruns(pilot_roster))

DetectWeatherRisks ==
  /\ steps < MaxScans
  /\ Scanned("detect_weather_risks", last.now, detect_weather_risks(drone_fleet))

DetectMaintenanceIssues ==
  /\ steps < MaxScans
  /\ \E now \in Clock :
       Scanned("detect_maintenance_issues", now,
               detect_maintenance_issues(drone_fleet, now))

DetectAllConflicts ==
  /\ steps < MaxScans
  /\ \E now \in Clock :
       Scanned("detect_all_conflicts", now,
               detect_all_conflicts(pilot_roster, drone_fleet, now))

ScanNext ==
  \/ DetectDoubleBookings
  \/ DetectSkillMismatches
  \/ DetectLocationMismatches
  \/ DetectBudgetOverruns
  \/ DetectWeatherRisks
  \/ DetectMaintenanceIssues
  \/ DetectAllConflicts

ScanSpec == ScanInit /\ [][ScanNext]_vars

(* ------------------------ auto-matched assignments -------------------- *)
\* create_assignment with both ids left out, on the stores of the queries:
\* M7 is a mission that both pilots and both drones of the fixture match.
AutoMatchMissionArgs == {"M1", "M2", "M7"}

AutoMatchInit ==
  /\ \/ pilot_roster \in QueryRosters /\ drone_fleet = InitialFleet
     \/ pilot_roster = InitialRoster /\ drone_fleet \in QueryFleets
  /\ mission_cells = InitialMissionCells
  /\ steps = 0
  /\ last = [op |-> "init", project_id |-> NoneVal, pilot_arg |-> NoneVal,
             drone_arg |-> NoneVal, id |-> NoneVal, status |-> NoneVal,
             assignment |-> NoneVal, ok |-> FALSE, result |-> Failure(NoneVal),
             pilot_id |-> NoneVal, drone_id |-> NoneVal, invoked |-> FALSE,
             call_roster |-> <<>>, call_fleet |-> <<>>,
             pre_roster |-> pilot_roster, pre_fleet |-> drone_fleet]

AutoMatchAssignment ==
  /\ steps < MaxSteps
  /\ \E project_id \in AutoMatchMissionArgs :
       Created(project_id, NoneVal, NoneVal,
               create_assignment(pilot_roster, drone_fleet, project_id,
                                 NoneVal, NoneVal))

AutoMatchSpec == AutoMatchInit /\ [][AutoMatchAssignment]_vars

(* --------------------- scans of a store with a bad record ------------- *)
\* The same scans, on stores where a row may hold M6, the mission whose
\* budget cell is not a number, next to rows that hold sound missions.
BadRecordPilotRows == <<1, 2, 2>>
BadRecordPilotHoldings == <<{Dash, "M6"}, {"M1", "M6"}, {Dash, "M2", "M9"}>>

BadRecordDroneRows == <<1, 2>>
BadRecordDroneHoldings == <<{Dash, "M6"}, {Dash, "M1", "M2"}>>

BadRecordInit ==
  /\ pilot_roster \in ScanStores(InitialRoster, BadRecordPilotRows, BadRecordPilotHoldings)
  /\ drone_fleet \in ScanStores(InitialFleet, BadRecordDroneRows, BadRecordDroneHoldings)
  /\ mission_cells = InitialMissionCells
  /\ steps = 0
  /\ last = [op |-> "init", now |-> 1, result |-> NoneVal, prev |-> NoScan,
             pre_roster |-> pilot_roster, pre_fleet |-> drone_fleet]

BadRecordSpec == BadRecordInit /\ [][ScanNext]_vars

(* ----------------------- interleaved assignments ---------------------- *)
\* Two callers run create_assignment against the same CSV files with no
\* lock: each call is split at its accesses to the files.  A call's locals
\* (its position pc, pilot_id, drone_id, the frame df that update_*_status
\* read and has not yet written back) live in last.calls; *_checked and
\* *_committed record the step at which the call passed the availability
\* check and wrote its commit (0: not yet).
Callers == {1, 2}

RaceMissionArgs == {"M1", "M2", "M3"}
RacePilotArgs == {NoneVal, "P1"}
RaceDroneArgs == {NoneVal, "D2"}

NewCall(project_id, pilot_arg, drone_arg) ==
  [pc |-> "create_assignment", project_id |-> project_id,
   pilot_id |-> pilot_arg, drone_id |-> drone_arg, df |-> <<>>,
   result |-> Failure(NoneVal), pilot_checked |-> 0, pilot_committed |-> 0,
   drone_checked |-> 0, drone_committed |-> 0]

RaceCalls ==
  {NewCall(project_id, pilot_arg, drone_arg) :
     project_id \in RaceMissionArgs, pilot_arg \in RacePilotArgs,
     drone_arg \in RaceDroneArgs}

RaceInit ==
  /\ pilot_roster = InitialRoster
  /\ drone_fleet = InitialFleet
  /\ mission_cells = InitialMissionCells
  /\ steps = 0
  /\ \E first \in RaceCalls, second \in RaceCalls :
       last = [op |-> "init", calls |-> <<first, second>>, result |-> NoneVal]

\* caller c has taken a step that leaves its locals as call
Stepped(c, call, roster, fleet) ==
  /\ last' = [last EXCEPT !.op = "create_assignment", !.calls[c] = call]
  /\ steps' = steps + 1
  /\ pilot_roster' = roster
  /\ drone_fleet' = fleet
  /\ UNCHANGED mission_cells

Returned(call, result) == [call EXCEPT !.pc = "done", !.result = result, !.df = <<>>]

\* the mission lookup and "Auto-match if not provided" for the pilot
PilotChosen(call, pilot_id) ==
  IF Falsy(pilot_id) THEN Returned(call, Failure("No suitable pilot found"))
  ELSE [call EXCEPT !.pc = "match_drone", !.pilot_id = pilot_id]

RaceMatchPilot ==
  \E c \in Callers :
    /\ last.calls[c].pc = "create_assignment"
    /\ Stepped(c,
         IF ~HasMission(last.calls[c].project_id)
         THEN Returned(last.calls[c], Failure("Mission not found"))
         ELSE PilotChosen(last.calls[c],
                IF Falsy(last.calls[c].pilot_id)
                THEN match_pilot_to_mission(pilot_roster, last.calls[c].project_id)
                ELSE last.calls[c].pilot_id),
         pilot_roster, drone_fleet)

\* "Auto-match if not provided" for the drone
DroneChosen(call, drone_id) ==
  IF drone_id = Raised THEN Returned(call, Failure(Raised))
  ELSE IF Falsy(drone_id) THEN Returned(call, Failure("No suitable drone found"))
  ELSE [call EXCEPT !.pc = "assign_pilot", !.drone_id = drone_id]

RaceMatchDrone ==
  \E c \in Callers :
    /\ last.calls[c].pc = "match_drone"
    /\ Stepped(c,
         DroneChosen(last.calls[c],
           IF Falsy(last.calls[c].drone_id)
           THEN match_drone_to_mission(drone_fleet, last.calls[c].project_id)
           ELSE last.calls[c].drone_id),
         pilot_roster, drone_fleet)

\* assign_pilot_to_mission up to the availability check
PilotChecked(call, roster, at) ==
  IF ~is_pilot_available(roster, call.pilot_id,
                         get_mission_by_id(call.project_id).start_date,
                         get_mission_by_id(call.project_id).end_date)
  THEN Returned(call, Failure("Failed to assign pilot"))
  ELSE [call EXCEPT !.pc = "update_pilot", !.pilot_checked = at]

RaceCheckPilot ==
  \E c \in Callers :
    /\ last.calls[c].pc = "assign_pilot"
    /\ Stepped(c, PilotChecked(last.calls[c], pilot_roster, steps + 1),
               pilot_roster, drone_fleet)

\* update_pilot_status reads pilot_roster.csv: for the commit, or for the
\* rollback after a failed drone commit
RaceReadPilotCsv ==
  \E c \in Callers :
    /\ last.calls[c].pc \in {"update_pilot", "rollback_pilot"}
    /\ Stepped(c,
         [last.calls[c] EXCEPT
            !.pc = IF @ = "update_pilot" THEN "write_pilot" ELSE "write_rollback",
            !.df = pilot_roster],
         pilot_roster, drone_fleet)

\* the frame read earlier, changed in the pilot's row, replaces the file
\* when the pilot's row was found
PilotCsvWritten(call, roster, status, assignment) ==
  IF HasPilot(call.df, call.pilot_id)
  THEN sync_update_pilot_status(call.df, call.pilot_id, status, assignment)
  ELSE roster

RaceWritePilotCsv ==
  \E c \in Callers :
    \/ /\ last.calls[c].pc = "write_pilot"
       /\ Stepped(c,
            [last.calls[c] EXCEPT !.pc = "assign_drone", !.df = <<>>,
                                  !.pilot_committed = steps + 1],
            PilotCsvWritten(last.calls[c], pilot_roster, "Assigned",
                            last.calls[c].project_id),
            drone_fleet)
    \/ /\ last.calls[c].pc = "write_rollback"
       /\ Stepped(c, Returned(last.calls[c], Failure("Failed to assign drone")),
            PilotCsvWritten(last.calls[c], pilot_roster, "Available", NoneVal),
            drone_fleet)

\* assign_drone_to_mission up to the availability check
DroneChecked(call, fleet, at) ==
  IF ~is_drone_available(fleet, call.drone_id)
  THEN [call EXCEPT !.pc = "rollback_pilot"]
  ELSE [call EXCEPT !.pc = "update_drone", !.drone_checked = at]

RaceCheckDrone ==
  \E c \in Callers :
    /\ last.calls[c].pc = "assign_drone"
    /\ Stepped(c, DroneChecked(last.calls[c], drone_fleet, steps + 1),
               pilot_roster, drone_fleet)

\* update_drone_status reads drone_fleet.csv
RaceReadDroneCsv ==
  \E c \in Callers :
    /\ last.calls[c].pc = "update_drone"
    /\ Stepped(c, [last.calls[c] EXCEPT !.pc = "write_drone", !.df = drone_fleet],
               pilot_roster, drone_fleet)

DroneCsvWritten(call, fleet, status, assignment) ==
  IF HasDrone(call.df, call.drone_id)
  THEN sync_update_drone_status(call.df, call.drone_id, status, assignment)
  ELSE fleet

RaceWriteDroneCsv ==
  \E c \in Callers :
    /\ last.calls[c].pc = "write_drone"
    /\ Stepped(c,
         [Returned(last.calls[c],
                   Success(last.calls[c].pilot_id, last.calls[c].drone_id,
                           last.calls[c].project_id))
            EXCEPT !.drone_committed = steps + 1],
         pilot_roster,
         DroneCsvWritten(last.calls[c], drone_fleet, "Assigned",
                         last.calls[c].project_id))

\* the double-booking scan, run once both calls have returned
RaceDetectDoubleBookings ==
  /\ \A c \in Callers : last.calls[c].pc = "done"
  /\ last.op # "detect_double_bookings"
  /\ last' = [last EXCEPT !.op = "detect_double_bookings",
                          !.result = detect_double_bookings(pilot_roster, drone_fleet)]
  /\ steps' = steps + 1
  /\ UNCHANGED <<pilot_roster, drone_fleet, mission_cells>>

RaceNext ==
  \/ RaceMatchPilot
  \/ RaceMatchDrone
  \/ RaceCheckPilot
  \/ RaceReadPilotCsv
  \/ RaceWritePilotCsv
  \/ RaceCheckDrone
  \/ RaceReadDroneCsv
  \/ RaceWriteDroneCsv
  \/ RaceDetectDoubleBookings

RaceSpec == RaceInit /\ [][RaceNext]_vars

(* ------------------------- the eligibility rules ---------------------- *)
\* The pure functions of utils.py, and calculate_cost of the roster manager
\* on the roster as first loaded, applied to inputs drawn at the start.
MaxApplications == 1

RatingArgs == {"None", "Clear Sky Only", "IP43", "IP43 Rain-rated", "IP20", "", NoneVal}
ForecastArgs == {"Sunny", "Cloudy", "Rainy", "sunny", "Windy"}
DateArgs == {Malformed, 1, 3, 5}
RateArgs == {0, 10}
CostPilotArgs == {"P1", "P2", "P9"}
CellArgs ==
  {NaN, <<>>, <<"Thermal">>, <<"Mapping">>, <<"Thermal", "Mapping">>,
   <<"Mapping", "Thermal">>, <<"DGCA">>}

RuleInputs(rating, forecast, dates, daily_rate, pilot_id, actor, required) ==
  [rating |-> rating, forecast |-> forecast, dates |-> dates,
   daily_rate |-> daily_rate, pilot_id |-> pilot_id, actor |-> actor,
   required |-> required]

\* the inputs drawn: the arguments of one rule vary, the others are fixed
RuleInputSets ==
  {RuleInputs(rating, forecast, <<1, 3, 3, 5>>, 10, "P1", <<"Thermal">>, <<>>) :
     rating \in RatingArgs, forecast \in ForecastArgs}
  \cup
  {RuleInputs("None", "Sunny", dates, 10, "P1", <<"Thermal">>, <<>>) :
     dates \in DateArgs \X DateArgs \X DateArgs \X DateArgs}
  \cup
  {RuleInputs("None", "Sunny", <<start_date, end_date, 3, 5>>, daily_rate,
              pilot_id, <<"Thermal">>, <<>>) :
     start_date \in DateArgs, end_date \in DateArgs, daily_rate \in RateArgs,
     pilot_id \in CostPilotArgs}
  \cup
  {RuleInputs("None", "Sunny", <<1, 3, 3, 5>>, 10, "P1", actor, required) :
     actor \in CellArgs, required \in CellArgs}

RulesInit ==
  /\ pilot_roster = InitialRoster
  /\ drone_fleet = InitialFleet
  /\ mission_cells = InitialMissionCells
  /\ steps = 0
  /\ \E inputs \in RuleInputSets :
       last = [op |-> "init", inputs |-> inputs, result |-> NoneVal]

\* a rule was applied to the inputs and returned result
Applied(op, result) ==
  /\ last' = [last EXCEPT !.op = op, !.result = result]
  /\ steps' = steps + 1
  /\ UNCHANGED <<pilot_roster, drone_fleet, mission_cells>>

IsWeatherCompatible ==
  /\ steps < MaxApplications
  /\ Applied("is_weather_compatible",
             is_weather_compatible(last.inputs.rating, last.inputs.forecast))

DatesOverlap ==
  /\ steps < MaxApplications
  /\ Applied("dates_overlap",
             dates_overlap(last.inputs.dates[1], last.inputs.dates[2],
                           last.inputs.dates[3], last.inputs.dates[4]))

CalculateMissionDuration ==
  /\ steps < MaxApplications
  /\ Applied("calculate_mission_duration",
             calculate_mission_duration(last.inputs.dates[1], last.inputs.dates[2]))

CalculatePilotCost ==
  /\ steps < MaxApplications
  /\ Applied("calculate_pilot_cost",
             calculate_pilot_cost(last.inputs.daily_rate, last.inputs.dates[1],
                                  last.inputs.dates[2]))

CalculateCost ==
  /\ steps < MaxApplications
  /\ Applied("calculate_cost",
             calculate_cost(pilot_roster, last.inputs.pilot_id, last.inputs.dates[1],
                            last.inputs.dates[2]))

SkillsMatch ==
  /\ steps < MaxApplications
  /\ Applied("skills_match", skills_match(last.inputs.actor, last.inputs.required))

CertificationsMatch ==
  /\ steps < MaxApplications
  /\ Applied("certifications_match",
             certifications_match(last.inputs.actor, last.inputs.required))

RulesNext ==
  \/ IsWeatherCompatible
  \/ DatesOverlap
  \/ CalculateMissionDuration
  \/ CalculatePilotCost
  \/ CalculateCost
  \/ SkillsMatch
  \/ CertificationsMatch

RulesSpec == RulesInit /\ [][RulesNext]_vars

(* ------------------------------ claims -------------------------------- *)
\* create_assignment ran in the last operation (directly, or as the last
\* step of handle_urgent_reassignment) for a mission of the store
CreateRan == last.invoked /\ HasMission(last.project_id)

\* the stores are as they were when create_assignment was invoked
StoresUntouched ==
  pilot_roster = last.call_roster /\ drone_fleet = last.call_fleet

PilotIs(roster, pilot_id, status, assignment) ==
  /\ HasPilot(roster, pilot_id)
  /\ get_pilot_by_id(roster, pilot_id).status = status
  /\ get_pilot_by_id(roster, pilot_id).current_assignment = assignment

DroneIs(fleet, drone_id, status, assignment) ==
  /\ HasDrone(fleet, drone_id)
  /\ get_drone_by_id(fleet, drone_id).status = status
  /\ get_drone_by_id(fleet, drone_id).current_assignment = assignment

\* C1: when create_assignment has committed the pilot and the drone commit
\* then fails ("Failed to assign drone"), the pilot is Available again and
\* its current assignment is cleared.
C1_RollbackClearsPilot ==
  (CreateRan /\ last.result.error = "Failed to assign drone")
    => PilotIs(pilot_roster, last.pilot_id, "Available", Dash)

\* C2: every pilot and drone with status Assigned holds a mission id, and
\* every pilot and drone with status Available holds no assignment.
C2_StatusAssignmentInvariant ==
  /\ \A i \in DOMAIN pilot_roster :
       /\ pilot_roster[i].status = "Assigned"
            => pilot_roster[i].current_assignment \in MissionIds
       /\ pilot_roster[i].status = "Available"
            => pilot_roster[i].current_assignment = Dash
  /\ \A i \in DOMAIN drone_fleet :
       /\ drone_fleet[i].status = "Assigned"
            => drone_fleet[i].current_assignment \in MissionIds
       /\ drone_fleet[i].status = "Available"
            => drone_fleet[i].current_assignment = Dash

\* C3: when create_assignment returns success, the returned mission id is the
\* requested one and the returned pilot and drone are both in the store with
\* status Assigned and current assignment equal to that mission.
C3_SuccessCommitsBoth ==
  (last.invoked /\ last.result.success)
    => /\ last.result.project_id = last.project_id
       /\ PilotIs(pilot_roster, last.result.pilot_id, "Assigned", last.project_id)
       /\ DroneIs(drone_fleet, last.result.drone_id, "Assigned", last.project_id)

C3_Witness ==
  /\ last.op = "create_assignment"
  /\ last.result.success
  /\ last.result.pilot_id = "P2"
  /\ last.result.drone_id = "D1"

\* C4: a successful create_assignment never overwrites a non-empty current
\* assignment of the committed pilot or drone with a different mission id
\* (the claim's first clause, that the assignment was empty, is stronger).
C4_NoOverwrite ==
  (last.invoked /\ last.result.success)
    => /\ get_pilot_by_id(last.call_roster, last.result.pilot_id).current_assignment
            \in {Dash, last.project_id}
       /\ get_drone_by_id(last.call_fleet, last.result.drone_id).current_assignment
            \in {Dash, last.project_id}

\* C5: create_assignment for a mission id that is not in the store fails with
\* "Mission not found" and changes no pilot and no drone record.
C5_MissionNotFound ==
  (last.op = "create_assignment" /\ ~HasMission(last.project_id))
    => /\ ~last.result.success
       /\ last.result.error = "Mission not found"
       /\ pilot_roster = last.pre_roster
       /\ drone_fleet = last.pre_fleet

C5_Witness ==
  /\ last.op = "create_assignment"
  /\ last.project_id = "M9"
  /\ last.pilot_arg = NoneVal
  /\ last.result.error = "Mission not found"
  /\ steps > 1

\* the pilots that find_matching_pilots yields for a mission of the store
MatchingPilots(roster, project_id) ==
  MissionPilots(roster, get_mission_by_id(project_id))

\* C6: create_assignment without a pilot id, when find_matching_pilots yields
\* no pilot for the mission, fails with "No suitable pilot found" and changes
\* no pilot and no drone record.
C6_NoSuitablePilot ==
  (CreateRan /\ Falsy(last.pilot_arg)
     /\ MatchingPilots(last.call_roster, last.project_id) = <<>>)
    => /\ ~last.result.success
       /\ last.result.error = "No suitable pilot found"
       /\ StoresUntouched

C6_Witness ==
  /\ CreateRan
  /\ Falsy(last.pilot_arg)
  /\ MatchingPilots(last.call_roster, last.project_id) = <<>>
  /\ last.result.error = "No suitable pilot found"

\* a drone that is Available and matches the mission's capability, location
\* and weather
EligibleDrone(drone, project_id) ==
  LET mission == get_mission_by_id(project_id)
      mapped == MappedCapabilities(mission.required_skills)
      required == IF mapped = <<>> THEN <<"RGB">> ELSE mapped
  IN /\ drone.status = "Available"
     /\ \E c \in DOMAIN required :
          IsSubstring(Chars(required[c]), Chars(drone.capabilities))
     /\ str_contains(drone.location, mission.location)
     /\ is_weather_compatible(drone.weather_resistance, mission.weather_forecast)

\* the case of C7: auto-match, some pilot matches, no drone is eligible
C7_Case ==
  /\ CreateRan
  /\ Falsy(last.pilot_arg) /\ Falsy(last.drone_arg)
  /\ MatchingPilots(last.call_roster, last.project_id) # <<>>
  /\ \A i \in DOMAIN last.call_fleet :
        ~EligibleDrone(last.call_fleet[i], last.project_id)

\* C7: for a mission with an eligible pilot but no eligible drone,
\* create_assignment(mission) fails and the matched pilot's status is
\* Available after it returns.
C7_PilotAvailableWithoutDrone ==
  C7_Case
    => /\ ~last.result.success
       /\ LET matched == MatchingPilots(last.call_roster, last.project_id)[1].pilot_id
          IN get_pilot_by_id(pilot_roster, matched).status = "Available"

\* the pilot was committed and rolled back
C7_Witness == C7_Case /\ last.result.error = "Failed to assign drone"

\* the case of C8: the pilot chosen by or supplied to create_assignment
\* fails the availability check
C8_Case ==
  /\ CreateRan
  /\ ~Falsy(last.pilot_id)
  /\ LET mission == get_mission_by_id(last.project_id)
     IN ~is_pilot_available(last.call_roster, last.pilot_id,
                            mission.start_date, mission.end_date)

\* C8 as claimed: such a call fails with "Failed to assign pilot" and changes
\* no pilot and no drone record.
C8_Original ==
  C8_Case
    => /\ ~last.result.success
       /\ last.result.error = "Failed to assign pilot"
       /\ StoresUntouched

\* C8 as amended: such a call fails and changes no pilot and no drone record;
\* the error is "Failed to assign pilot" when a drone id was supplied or
\* auto-matched, and "No suitable drone found" when the drone auto-match
\* (which runs before the pilot commit) found none.
C8_PilotAssignFailed ==
  C8_Case
    => /\ ~last.result.success
       /\ last.result.error = IF Falsy(last.drone_id)
                              THEN "No suitable drone found"
                              ELSE "Failed to assign pilot"
       /\ StoresUntouched

C8_Witness ==
  /\ C8_Case
  /\ last.result.error = "Failed to assign pilot"
  /\ HasPilot(last.call_roster, last.pilot_id)

\* C9: handle_urgent_reassignment frees every pilot and every drone that
\* holds the mission: when create_assignment is invoked each former holder
\* has status Available and no current assignment.
C9_AllHoldersFreed ==
  (last.op = "handle_urgent_reassignment" /\ last.invoked)
    => /\ \A i \in DOMAIN last.pre_roster :
            last.pre_roster[i].current_assignment = last.project_id
              => /\ last.call_roster[i].status = "Available"
                 /\ last.call_roster[i].current_assignment = Dash
       /\ \A i \in DOMAIN last.pre_fleet :
            last.pre_fleet[i].current_assignment = last.project_id
              => /\ last.call_fleet[i].status = "Available"
                 /\ last.call_fleet[i].current_assignment = Dash

\* C10: when handle_urgent_reassignment has freed prior holders and its
\* create_assignment fails, no pilot and no drone holds the mission after
\* the call.
C10_UnassignedAfterFailure ==
  (/\ last.op = "handle_urgent_reassignment" /\ last.invoked
   /\ ~last.result.success
   /\ \/ \E i \in DOMAIN last.pre_roster :
            last.pre_roster[i].current_assignment = last.project_id
      \/ \E i \in DOMAIN last.pre_fleet :
            last.pre_fleet[i].current_assignment = last.project_id)
    => /\ \A i \in DOMAIN pilot_roster :
            pilot_roster[i].current_assignment # last.project_id
       /\ \A i \in DOMAIN drone_fleet :
            drone_fleet[i].current_assignment # last.project_id

\* the last operation was a status update of the named kind
StatusUpdateRan(op) == last.op = op

\* C11: update_pilot_status / update_drone_status with a status outside the
\* entity's valid statuses returns False and leaves both stores as they
\* were; with a valid status it returns True and, when the named pilot or
\* drone is in the store, its status cell holds that status afterwards.
C11_UpdateStatusValidates ==
  /\ StatusUpdateRan("update_pilot_status")
       => IF last.status \notin PilotValidStatuses
          THEN ~last.ok /\ pilot_roster = last.pre_roster
                        /\ drone_fleet = last.pre_fleet
          ELSE /\ last.ok
               /\ HasPilot(last.pre_roster, last.id)
                    => get_pilot_by_id(pilot_roster, last.id).status = last.status
  /\ StatusUpdateRan("update_drone_status")
       => IF last.status \notin DroneValidStatuses
          THEN ~last.ok /\ pilot_roster = last.pre_roster
                        /\ drone_fleet = last.pre_fleet
          ELSE /\ last.ok
               /\ HasDrone(last.pre_fleet, last.id)
                    => get_drone_by_id(drone_fleet, last.id).status = last.status

\* an invalid status is refused for a pilot that an earlier call had changed
C11_Witness ==
  /\ StatusUpdateRan("update_pilot_status")
  /\ last.status = "Bogus" /\ last.id = "P1" /\ ~last.ok
  /\ get_pilot_by_id(pilot_roster, "P1").status = "On Leave"

\* the last operation was the named query
QueryRan(op) == last.op = op

\* C12: is_pilot_available(pilot_id, start, end) is true iff the pilot is in
\* the store, its status is exactly Available and it holds no current
\* assignment; the window is drawn freely and does not enter the result.
C12_PilotAvailableIff ==
  QueryRan("is_pilot_available")
    => last.result =
         PilotIs(last.pre_roster, last.args.pilot_id, "Available", Dash)

\* an Available pilot that still holds a mission is not available
C12_Witness ==
  /\ QueryRan("is_pilot_available")
  /\ PilotIs(last.pre_roster, last.args.pilot_id, "Available", "M1")
  /\ last.args.start_date = 5
  /\ last.result = FALSE

\* C13: is_drone_available(drone_id) is true iff the drone is in the store
\* and its status is exactly Available, whatever its current assignment and
\* maintenance-due date; it is false for an id that is not in the store.
C13_DroneAvailableIff ==
  QueryRan("is_drone_available")
    => last.result =
         (/\ HasDrone(last.pre_fleet, last.args.drone_id)
          /\ get_drone_by_id(last.pre_fleet, last.args.drone_id).status = "Available")

\* an Available drone with an assignment and a parseable maintenance date
C13_Witness ==
  /\ QueryRan("is_drone_available")
  /\ DroneIs(last.pre_fleet, last.args.drone_id, "Available", "M1")
  /\ get_drone_by_id(last.pre_fleet, last.args.drone_id).maintenance_due # Malformed
  /\ last.result = TRUE

\* the pilot satisfies every condition of C14 for the arguments of the query
EligiblePilot(pilot, args) ==
  /\ \A i \in DOMAIN args.required_skills :
        InList(args.required_skills[i], pilot.skills)
  /\ \A i \in DOMAIN args.required_certs :
        InList(args.required_certs[i], pilot.certifications)
  /\ str_contains(pilot.location, args.location)
  /\ pilot.status = "Available"
  /\ calculate_pilot_cost(pilot.daily_rate_inr, args.start_date, args.end_date)
       <= args.max_budget

\* C14: find_matching_pilots returns, in store order, exactly the pilots with
\* every required skill, every required certification, a location that
\* contains the mission location, status Available, and a cost within the
\* given budget (a budget of 0 included).
C14_ExactlyEligiblePilots ==
  QueryRan("find_matching_pilots")
    => last.result =
         SelectSeq(last.pre_roster, LAMBDA pilot : EligiblePilot(pilot, last.args))

\* a drone that is Available and matches one required capability, the
\* location and the weather
MatchesDroneQuery(drone, args) ==
  /\ drone.status = "Available"
  /\ \E c \in DOMAIN args.required_capabilities :
        IsSubstring(Chars(args.required_capabilities[c]), Chars(drone.capabilities))
  /\ str_contains(drone.location, args.location)
  /\ is_weather_compatible(drone.weather_resistance, args.weather_forecast)

\* C15: find_matching_drones returns only drones whose status is Available
\* (never Unavailable, Assigned or Maintenance) and that match a required
\* capability, the location and the weather.
C15_OnlyAvailableDrones ==
  QueryRan("find_matching_drones")
    => \A i \in DOMAIN last.result : MatchesDroneQuery(last.result[i], last.args)

\* C16: match_pilot_to_mission returns the id of the first pilot, in store
\* order, that find_matching_pilots yields for the mission's skills,
\* certifications, location, dates and budget; it returns None iff that
\* result is empty or the mission is not in the store.
C16_MatchPilotIsFirst ==
  QueryRan("match_pilot_to_mission")
    => IF ~HasMission(last.args.project_id) THEN last.result = NoneVal
       ELSE LET mission == get_mission_by_id(last.args.project_id)
                found == find_matching_pilots(
                           last.pre_roster, mission.required_skills,
                           mission.required_certs, mission.location,
                           mission.start_date, mission.end_date,
                           mission.mission_budget_inr)
            IN /\ (last.result = NoneVal) <=> (found = <<>>)
               /\ found # <<>> => last.result = found[1].pilot_id

\* two pilots match the mission and the first of the store is returned
C16_Witness ==
  /\ QueryRan("match_pilot_to_mission")
  /\ last.args.project_id = "M2"
  /\ Len(MatchingPilots(last.pre_roster, "M2")) = 2
  /\ last.result = "P1"

\* the lookup of C17, and the capabilities it gives for a skills cell
LookupCapabilities(skills) ==
  LET mapped(skill) == skill \in {"Thermal", "Mapping", "Survey", "Inspection", "LiDAR"}
      known == SelectSeq(parse_skills(skills), mapped)
  IN IF known = <<>> THEN <<"RGB">>
     ELSE [i \in DOMAIN known |->
             IF known[i] = "Thermal" THEN "Thermal"
             ELSE IF known[i] = "LiDAR" THEN "LiDAR" ELSE "RGB"]

\* C17: match_drone_to_mission maps the mission's required skills to
\* capabilities (Thermal to Thermal; Mapping, Survey, Inspection to RGB;
\* LiDAR to LiDAR; RGB alone when no skill maps or the cell is empty) and
\* returns the first drone, in store order, that find_matching_drones yields
\* for them, or None.
C17_MatchDroneByLookup ==
  (QueryRan("match_drone_to_mission") /\ HasMission(last.args.project_id))
    => LET mission == get_mission_by_id(last.args.project_id)
       IN last.result =
            FirstId(find_matching_drones(
                      last.pre_fleet, LookupCapabilities(mission.required_skills),
                      mission.location, mission.weather_forecast),
                    "drone_id")

\* the last operation was the named scan
ScanRan(op) == last.op = op

\* the last two operations were both detect_all_conflicts
ScannedTwice ==
  ScanRan("detect_all_conflicts") /\ last.prev.op = "detect_all_conflicts"

\* the scan left every pilot and drone record as it was (the mission
\* records are never written by any operation)
ScanReadOnly == pilot_roster = last.pre_roster /\ drone_fleet = last.pre_fleet

NamesMission(entry, project_id) ==
  CASE entry.type = "double_booking" ->
         \E k \in DOMAIN entry.assignments : entry.assignments[k] = project_id
    [] entry.type = "maintenance_due" -> entry.current_assignment = project_id
    [] OTHER -> entry.project_id = project_id

AllEntries(report) ==
  report.double_bookings \o report.skill_mismatches \o report.location_mismatches
    \o report.budget_overruns \o report.weather_risks \o report.maintenance_issues

\* C19: when the store has no conflict and create_assignment(M) with
\* auto-matched pilot and drone succeeds, a following detect_all_conflicts
\* has no entry of any kind that names M.
C19_NoConflictAfterCreate ==
  (/\ CreateRan /\ last.op = "create_assignment"
   /\ Falsy(last.pilot_arg) /\ Falsy(last.drone_arg)
   /\ last.result.success)
    => \A now \in ClockDays :
         AllEntries(detect_all_conflicts(last.pre_roster, last.pre_fleet, now)) = <<>>
           => \A k \in DOMAIN AllEntries(detect_all_conflicts(pilot_roster,
                                                               drone_fleet, now)) :
                ~NamesMission(AllEntries(detect_all_conflicts(pilot_roster,
                                                              drone_fleet, now))[k],
                              last.project_id)

\* the deployed rows of the store before the scan, per kind of actor
ScannedAssigns(entity_type) ==
  IF entity_type = "pilot" THEN get_current_assignments(last.pre_roster)
  ELSE get_deployed_drones(last.pre_fleet)

ActorKey(entity_type) == IF entity_type = "pilot" THEN "pilot_id" ELSE "drone_id"

\* the pairs of assignments (rows i < j) of the actor id whose missions are
\* the two given ones and have overlapping date ranges
OverlappingHeld(entity_type, id, held) ==
  LET assigns == ScannedAssigns(entity_type)
      key == ActorKey(entity_type)
      Known(a) == \E m \in DOMAIN missions : missions[m].project_id = a
      M(a) == CHOOSE m \in DOMAIN missions : missions[m].project_id = a
  IN {p \in (DOMAIN assigns) \X (DOMAIN assigns) :
        /\ p[1] < p[2]
        /\ assigns[p[1]][key] = id /\ assigns[p[2]][key] = id
        /\ {assigns[p[1]].current_assignment, assigns[p[2]].current_assignment} = held
        /\ \A a \in held : Known(a)
        /\ LET m1 == missions[M(assigns[p[1]].current_assignment)]
               m2 == missions[M(assigns[p[2]].current_assignment)]
           IN dates_overlap(m1.start_date, m1.end_date, m2.start_date, m2.end_date)}

\* the entries of the report that name the actor and the two missions
ReportedFor(entity_type, id, held) ==
  {k \in DOMAIN last.result :
     /\ last.result[k].entity_type = entity_type
     /\ last.result[k].entity_id = id
     /\ {last.result[k].assignments[1], last.result[k].assignments[2]} = held}

HeldValues == UNION ({ScanPilotHoldings[i] : i \in DOMAIN ScanPilotHoldings}
                       \cup {ScanDroneHoldings[i] : i \in DOMAIN ScanDroneHoldings})

\* C20: detect_double_bookings reports, for every pilot and drone id, one
\* high-severity double_booking entry for each pair of its current
\* assignments whose missions' date ranges overlap, naming the actor and
\* both missions, and nothing else: no entry for a pair that does not
\* overlap, and none for an actor with a single assignment.
C20_OneEntryPerOverlap ==
  ScanRan("detect_double_bookings")
    => /\ \A k \in DOMAIN last.result :
            /\ last.result[k].type = "double_booking"
            /\ last.result[k].severity = "high"
            /\ Len(last.result[k].assignments) = 2
            /\ \/ /\ last.result[k].entity_type = "pilot"
                  /\ last.result[k].entity_id \in PilotIds
               \/ /\ last.result[k].entity_type = "drone"
                  /\ last.result[k].entity_id \in DroneIds
       /\ \A a \in HeldValues, b \in HeldValues :
            /\ \A id \in PilotIds :
                 Cardinality(ReportedFor("pilot", id, {a, b}))
                   = Cardinality(OverlappingHeld("pilot", id, {a, b}))
            /\ \A id \in DroneIds :
                 Cardinality(ReportedFor("drone", id, {a, b}))
                   = Cardinality(OverlappingHeld("drone", id, {a, b}))

\* P2 holds three assignments of which two pairs overlap, and D2 holds two
\* that do not overlap: two entries, both for P2
C20_Witness ==
  /\ ScanRan("detect_double_bookings")
  /\ Len(SelectSeq(ScannedAssigns("pilot"), LAMBDA row : row.pilot_id = "P2")) = 3
  /\ Cardinality(OverlappingHeld("pilot", "P2", {"M1", "M2"})) = 1
  /\ Cardinality(OverlappingHeld("pilot", "P2", {"M1", "M5"})) = 1
  /\ Len(SelectSeq(ScannedAssigns("drone"), LAMBDA row : row.drone_id = "D2")) = 2
  /\ Len(last.result) = 2

\* ---- C21 ----
\* both calls passed the availability check on the actor before either
\* wrote its commit, both wrote the same id, and their missions differ and
\* overlap; the scan has run after both calls returned
RaceMissionsOverlap ==
  /\ last.calls[1].project_id # last.calls[2].project_id
  /\ dates_overlap(get_mission_by_id(last.calls[1].project_id).start_date,
                   get_mission_by_id(last.calls[1].project_id).end_date,
                   get_mission_by_id(last.calls[2].project_id).start_date,
                   get_mission_by_id(last.calls[2].project_id).end_date)

RacedOnPilot ==
  /\ last.op = "detect_double_bookings"
  /\ RaceMissionsOverlap
  /\ last.calls[1].pilot_id = last.calls[2].pilot_id
  /\ \A c \in Callers, d \in Callers :
       /\ last.calls[c].pilot_checked > 0
       /\ last.calls[c].pilot_checked < last.calls[d].pilot_committed

RacedOnDrone ==
  /\ last.op = "detect_double_bookings"
  /\ RaceMissionsOverlap
  /\ last.calls[1].drone_id = last.calls[2].drone_id
  /\ \A c \in Callers, d \in Callers :
       /\ last.calls[c].drone_checked > 0
       /\ last.calls[c].drone_checked < last.calls[d].drone_committed

BookingReported(entity_type, entity_id) ==
  \E k \in DOMAIN last.result :
    /\ last.result[k].type = "double_booking"
    /\ last.result[k].entity_type = entity_type
    /\ last.result[k].entity_id = entity_id

\* C21: when two create_assignment calls for different missions with
\* overlapping dates both pass the availability check before either commits
\* and both commit the same pilot or drone, a detect_double_bookings run
\* after both calls returned reports a double_booking for that pilot or drone
C21_RaceIsReported ==
  /\ RacedOnPilot => BookingReported("pilot", last.calls[1].pilot_id)
  /\ RacedOnDrone => BookingReported("drone", last.calls[1].drone_id)

\* ---- C22 ----
\* the set of tokens of a skills / certifications cell
TokenSet(cell) == IF cell = NaN THEN {} ELSE {cell[i] : i \in DOMAIN cell}

\* the pilot records (rows) of the scanned roster that hold the mission
RowsHolding(df, key, id, project_id) ==
  {i \in DOMAIN df : df[i][key] = id /\ df[i].current_assignment = project_id}

\* the pilot lacks something the mission asks for, per kind of entry
Lacks(kind, pilot, mission) ==
  IF kind = "skill_mismatch"
  THEN ~(TokenSet(mission.required_skills) \subseteq TokenSet(pilot.skills))
  ELSE ~(TokenSet(mission.required_certs) \subseteq TokenSet(pilot.certifications))

SkillEntries(kind, pilot_id, project_id) ==
  {k \in DOMAIN last.result :
     /\ last.result[k].type = kind
     /\ last.result[k].pilot_id = pilot_id
     /\ last.result[k].project_id = project_id}

\* C22: detect_skill_mismatches reports a high-severity skill_mismatch
\* (certification_mismatch) entry for a pilot iff the pilot record holds a
\* current assignment to a mission of the store and the pilot's skills
\* (certifications) do not contain all the mission requires; one entry per
\* such pilot record and kind, and no other entry
C22_SkillMismatchIff ==
  ScanRan("detect_skill_mismatches") =>
    /\ \A k \in DOMAIN last.result :
         /\ last.result[k].type \in {"skill_mismatch", "certification_mismatch"}
         /\ last.result[k].severity = "high"
         /\ last.result[k].pilot_id \in PilotIds
         /\ last.result[k].project_id \in MissionIds
    /\ \A kind \in {"skill_mismatch", "certification_mismatch"},
          pilot_id \in PilotIds, project_id \in HeldValues :
         Cardinality(SkillEntries(kind, pilot_id, project_id))
           = IF /\ HasMission(project_id)
                /\ Lacks(kind, get_pilot_by_id(last.pre_roster, pilot_id),
                         get_mission_by_id(project_id))
             THEN Cardinality(RowsHolding(last.pre_roster, "pilot_id",
                                          pilot_id, project_id))
             ELSE 0

\* a scan that reported a skill and a certification mismatch for one pilot
\* and passed over an assigned pilot whose skills suffice
C22_Witness ==
  /\ ScanRan("detect_skill_mismatches")
  /\ SkillEntries("skill_mismatch", "P2", "M3") # {}
  /\ SkillEntries("certification_mismatch", "P2", "M3") # {}
  /\ RowsHolding(last.pre_roster, "pilot_id", "P1", "M1") # {}
  /\ SkillEntries("skill_mismatch", "P1", "M1") = {}

\* ---- C23 ----
LocationEntries(entity_type, entity_id, project_id) ==
  {k \in DOMAIN last.result :
     /\ last.result[k].type = "location_mismatch"
     /\ last.result[k].severity = "medium"
     /\ last.result[k].entity_type = entity_type
     /\ last.result[k].entity_id = entity_id
     /\ last.result[k].project_id = project_id}

\* the records (rows) with the id that hold the mission, the mission is in
\* the store, and the record's location is not the mission's, compared
\* case-insensitively
Misplaced(df, key, id, project_id) ==
  {i \in RowsHolding(df, key, id, project_id) :
     /\ HasMission(project_id)
     /\ lower(Chars(df[i].location))
          # lower(Chars(get_mission_by_id(project_id).location))}

\* C23: detect_location_mismatches reports pilots and drones independently:
\* every drone record assigned to a mission of the store at another location
\* yields exactly one medium-severity drone entry whether or not a pilot
\* holds the mission, and every such pilot record exactly one pilot entry
\* whether or not a drone holds it
C23_LocationsIndependent ==
  ScanRan("detect_location_mismatches") =>
    /\ \A pilot_id \in PilotIds, project_id \in HeldValues :
         Cardinality(LocationEntries("pilot", pilot_id, project_id))
           = Cardinality(Misplaced(last.pre_roster, "pilot_id", pilot_id, project_id))
    /\ \A drone_id \in DroneIds, project_id \in HeldValues :
         Cardinality(LocationEntries("drone", drone_id, project_id))
           = Cardinality(Misplaced(last.pre_fleet, "drone_id", drone_id, project_id))

\* ---- C24 ----
BudgetEntries(pilot_id, project_id) ==
  {k \in DOMAIN last.result :
     /\ last.result[k].type = "budget_overrun"
     /\ last.result[k].pilot_id = pilot_id
     /\ last.result[k].project_id = project_id}

\* the budget that match_pilot_to_mission hands to the budget filter
FilterBudget(project_id) == get_mission_by_id(project_id).mission_budget_inr

MissionCost(roster, pilot_id, project_id) ==
  calculate_cost(roster, pilot_id, get_mission_by_id(project_id).start_date,
                 get_mission_by_id(project_id).end_date)

WeatherEntries(drone_id, project_id) ==
  {k \in DOMAIN last.result :
     /\ last.result[k].type = "weather_risk"
     /\ last.result[k].drone_id = drone_id
     /\ last.result[k].project_id = project_id}

\* C25: detect_weather_risks reports a high-severity weather_risk entry for
\* a drone iff the drone record holds a current assignment to a mission of
\* the store and is_weather_compatible of the drone's resistance and the
\* mission's forecast is false; no other entry is reported
C25_WeatherRiskIff ==
  ScanRan("detect_weather_risks") =>
    /\ \A k \in DOMAIN last.result :
         /\ last.result[k].type = "weather_risk"
         /\ last.result[k].severity = "high"
         /\ last.result[k].drone_id \in DroneIds
         /\ last.result[k].project_id \in MissionIds
    /\ \A drone_id \in DroneIds, project_id \in HeldValues :
         Cardinality(WeatherEntries(drone_id, project_id))
           = IF /\ HasMission(project_id)
                /\ ~is_weather_compatible(
                      get_drone_by_id(last.pre_fleet, drone_id).weather_resistance,
                      get_mission_by_id(project_id).weather_forecast)
             THEN Cardinality(RowsHolding(last.pre_fleet, "drone_id",
                                          drone_id, project_id))
             ELSE 0

\* a scan of a fleet with D1 (no resistance) and D2 (IP43) both on the rainy
\* M2: D1 is reported, D2 is not
C25_Witness ==
  /\ ScanRan("detect_weather_risks")
  /\ WeatherEntries("D1", "M2") # {}
  /\ RowsHolding(last.pre_fleet, "drone_id", "D2", "M2") # {}
  /\ WeatherEntries("D2", "M2") = {}

\* ---- C26 ----
MaintenanceEntries(drone_id) ==
  {k \in DOMAIN last.result :
     /\ last.result[k].type = "maintenance_due"
     /\ last.result[k].severity = "high"
     /\ last.result[k].drone_id = drone_id}

\* the drone's records whose due date parses and is not after the clock
DueRows(fleet, drone_id, now) ==
  {i \in DOMAIN fleet :
     /\ fleet[i].drone_id = drone_id
     /\ fleet[i].maintenance_due # Malformed
     /\ fleet[i].maintenance_due <= now}

HoldsAssignment(fleet, drone_id) ==
  \E i \in DOMAIN fleet :
    fleet[i].drone_id = drone_id /\ fleet[i].current_assignment # Dash

\* C26: detect_maintenance_issues reports a high-severity maintenance_due
\* entry for a drone iff its due date parses and is on or before the current
\* day and the drone holds a non-empty current assignment; a drone whose due
\* date is unparseable or missing is never reported
C26_MaintenanceDueIff ==
  ScanRan("detect_maintenance_issues") =>
    /\ \A k \in DOMAIN last.result :
         last.result[k].type = "maintenance_due" /\ last.result[k].severity = "high"
    /\ \A drone_id \in DroneIds :
         /\ MaintenanceEntries(drone_id) # {}
              <=> /\ DueRows(last.pre_fleet, drone_id, last.now) # {}
                  /\ HoldsAssignment(last.pre_fleet, drone_id)
         /\ Cardinality(MaintenanceEntries(drone_id))
              \in {0, Cardinality(DueRows(last.pre_fleet, drone_id, last.now))}
         /\ (\A i \in DOMAIN last.pre_fleet :
               last.pre_fleet[i].drone_id = drone_id
                 => last.pre_fleet[i].maintenance_due = Malformed)
              => MaintenanceEntries(drone_id) = {}

\* a scan on D2's due day: D2, assigned, is reported; D1, assigned with an
\* unparseable due date, is not
C26_Witness ==
  /\ ScanRan("detect_maintenance_issues")
  /\ last.now = 2
  /\ MaintenanceEntries("D2") # {}
  /\ HoldsAssignment(last.pre_fleet, "D1")
  /\ MaintenanceEntries("D1") = {}

\* ---- C27 ----
RuleRan(op) == last.op = op

\* the rating carries a rain-capable marker (IP43 / rain)
RainCapable(rating) ==
  /\ ~Falsy(rating)
  /\ \/ IsSubstring(Chars("ip43"), lower(Chars(rating)))
     \/ IsSubstring(Chars("rain"), lower(Chars(rating)))

SunnyOrCloudy(forecast) ==
  lower(Chars(forecast)) \in {Chars("sunny"), Chars("cloudy")}

\* C27: is_weather_compatible follows the two-tier policy: a rating with a
\* rain-capable marker is compatible with every forecast; every other
\* rating (none / clear sky only, missing, or unclassifiable) is compatible
\* exactly with the forecasts Sunny and Cloudy
C27_TwoTierPolicy ==
  RuleRan("is_weather_compatible") =>
    last.result = IF RainCapable(last.inputs.rating) THEN TRUE
                  ELSE SunnyOrCloudy(last.inputs.forecast)

\* ---- C28 ----
Parses(date) == date # Malformed

\* C28: dates_overlap(a, b, c, d) is true iff the four dates parse and
\* a <= d and c <= b; it gives the same answer with the two ranges swapped;
\* it is true for a range against itself when a <= b; and it is false as
\* soon as one date is malformed
C28_DatesOverlap ==
  RuleRan("dates_overlap") =>
    LET a == last.inputs.dates[1]
        b == last.inputs.dates[2]
        c == last.inputs.dates[3]
        d == last.inputs.dates[4]
    IN /\ last.result <=> /\ Parses(a) /\ Parses(b) /\ Parses(c) /\ Parses(d)
                          /\ a <= d /\ c <= b
       /\ last.result = dates_overlap(c, d, a, b)
       /\ (Parses(a) /\ Parses(b) /\ a <= b /\ c = a /\ d = b) => last.result
       /\ (~Parses(a) \/ ~Parses(b) \/ ~Parses(c) \/ ~Parses(d)) => ~last.result

\* ranges that touch in one day overlap: 1..3 against 3..5
C28_Witness ==
  /\ RuleRan("dates_overlap")
  /\ last.inputs.dates = <<1, 3, 3, 5>>
  /\ last.result

\* ---- C29 ----
\* rate times the days from start to end, both counted; 0 without two dates
InclusiveCost(daily_rate, start_date, end_date) ==
  IF Parses(start_date) /\ Parses(end_date)
  THEN daily_rate * ((end_date - start_date) + 1)
  ELSE 0

RosterRate(pilot_id) ==
  (CHOOSE i \in DOMAIN InitialRoster : InitialRoster[i].pilot_id = pilot_id)

\* C29: calculate_pilot_cost(rate, start, end) is rate * ((end - start) in
\* days + 1), both endpoints counted (days 1..5 cost rate * 5), and 0 when
\* start or end is malformed; calculate_cost(pilot_id, ...) is that cost at
\* the pilot's daily rate, and 0 for an unknown pilot
C29_InclusiveCost ==
  /\ RuleRan("calculate_pilot_cost") =>
       /\ last.result = InclusiveCost(last.inputs.daily_rate, last.inputs.dates[1],
                                      last.inputs.dates[2])
       /\ (last.inputs.dates[1] = 1 /\ last.inputs.dates[2] = 5)
            => last.result = last.inputs.daily_rate * 5
       /\ (~Parses(last.inputs.dates[1]) \/ ~Parses(last.inputs.dates[2]))
            => last.result = 0
  /\ RuleRan("calculate_cost") =>
       last.result
         = IF last.inputs.pilot_id \in PilotIds
           THEN InclusiveCost(
                  InitialRoster[RosterRate(last.inputs.pilot_id)].daily_rate_inr,
                  last.inputs.dates[1], last.inputs.dates[2])
           ELSE 0

\* the five days 1..5 at rate 10 cost 50
C29_Witness ==
  /\ RuleRan("calculate_pilot_cost")
  /\ last.inputs.daily_rate = 10
  /\ last.inputs.dates[1] = 1 /\ last.inputs.dates[2] = 5
  /\ last.result = 50

\* ---- C30 ----
\* C30: skills_match(actor, required), and certifications_match likewise,
\* is true iff every required element is among the actor's (a superset
\* match, not set equality); an empty requirement matches every actor, one
\* without any skill included
C30_SupersetMatch ==
  (RuleRan("skills_match") \/ RuleRan("certifications_match")) =>
    /\ last.result
         <=> TokenSet(last.inputs.required) \subseteq TokenSet(last.inputs.actor)
    /\ TokenSet(last.inputs.required) = {} => last.result

\* an actor with more than the one skill required matches
C30_Witness ==
  /\ RuleRan("skills_match")
  /\ last.inputs.actor = <<"Thermal", "Mapping">>
  /\ last.inputs.required = <<"Mapping">>
  /\ last.result

\* ---- C31 ----
\* the rows of the roster whose mission is in the store with a budget that
\* is a number, and whose pilot costs more than that budget
OverrunRows(roster) ==
  {i \in DOMAIN roster :
     /\ HasMission(roster[i].current_assignment)
     /\ LET mission == get_mission_by_id(roster[i].current_assignment)
        IN /\ mission.mission_budget_inr # NonNumeric
           /\ mission.mission_budget_inr > 0
           /\ roster[i].daily_rate_inr
                * calculate_mission_duration(mission.start_date, mission.end_date)
                > mission.mission_budget_inr}

\* C31: no conflict scan ends in an error because of one record with a
\* missing or unparseable field (a budget that is not a number, a malformed
\* date, an assignment naming an unknown mission): the scan returns its
\* report, and the budget scan still reports the overrun of every other
\* record.
C31_ScansNeverFatal ==
  /\ ScanRan("detect_all_conflicts") => last.result # RaisedSummary
  /\ last.op \notin {"init", "detect_all_conflicts"} => last.result # RaisedReport
  /\ (ScanRan("detect_budget_overruns") /\ last.result # RaisedReport)
       => \A i \in OverrunRows(pilot_roster) :
            \E k \in DOMAIN last.result :
              /\ last.result[k].type = "budget_overrun"
              /\ last.result[k].pilot_id = pilot_roster[i].pilot_id
              /\ last.result[k].project_id = pilot_roster[i].current_assignment

\* ---- C32 ----
\* the pilot passes every filter dimension that was given
PassesFilters(pilot, args) ==
  /\ args.skills # <<>> => TokenSet(args.skills) \cap TokenSet(pilot.skills) # {}
  /\ args.certifications # <<>>
       => TokenSet(args.certifications) \cap TokenSet(pilot.certifications) # {}
  /\ args.location # NoneVal
       => IsSubstring(lower(Chars(args.location)), lower(Chars(pilot.location)))
  /\ args.status # NoneVal
       => IsSubstring(lower(Chars(args.status)), lower(Chars(pilot.status)))

\* C32: query_pilots returns, in store order, exactly the pilots that pass
\* the AND of the given filter dimensions: a skills (certifications) filter
\* of several values matches a pilot having any one of them, location and
\* status match by case-insensitive substring, and an omitted dimension
\* imposes no restriction.
C32_QueryPilotsFilters ==
  QueryRan("query_pilots")
    => last.result = SelectSeq(last.pre_roster,
                               LAMBDA pilot : PassesFilters(pilot, last.args))

\* a filter of two skills, a lower-case location and a status returned the
\* one pilot who has one of the skills, leaving the other pilot out
C32_Witness ==
  /\ QueryRan("query_pilots")
  /\ last.args.skills = <<"Survey", "Mapping">>
  /\ last.args.location = "bangalore"
  /\ last.args.status = "assigned"
  /\ Len(last.result) = 1
  /\ last.result[1].pilot_id = "P1"
  /\ last.result[1].status = "Assigned"
  /\ Len(last.pre_roster) = 2

\* ---- C33 ----
\* some row of the store has status Assigned and holds the mission
AssignedTo(df, project_id) ==
  \E i \in DOMAIN df :
     df[i].status = "Assigned" /\ df[i].current_assignment = project_id

\* C33: starting with every pilot and drone Available and unassigned, after
\* any sequence of completed create_assignment and
\* handle_urgent_reassignment calls, for every mission some pilot is
\* Assigned to it iff some drone is Assigned to it.
C33_NoHalfCommitted ==
  \A project_id \in MissionIds :
     AssignedTo(pilot_roster, project_id) <=> AssignedTo(drone_fleet, project_id)

\* ---- C34 ----
\* the first row of the roster that held the mission when the call started:
\* the pilot that handle_urgent_reassignment frees
FirstHolder(roster, project_id) ==
  Holders(get_current_assignments(roster), project_id)[1].pilot_id

\* C34: a pilot that create_assignment committed and then rolled back, or
\* that handle_urgent_reassignment freed, is assignable again: an
\* availability check on that pilot made right after the rollback (the
\* freeing) returns true.
C34_FreedPilotAssignable ==
  /\ (CreateRan /\ last.result.error = "Failed to assign drone")
       => is_pilot_available(pilot_roster, last.pilot_id,
                             get_mission_by_id(last.project_id).start_date,
                             get_mission_by_id(last.project_id).end_date)
  /\ (/\ last.op = "handle_urgent_reassignment"
      /\ last.invoked
      /\ Holders(get_current_assignments(last.pre_roster), last.project_id) # <<>>)
       => is_pilot_available(last.call_roster,
                             FirstHolder(last.pre_roster, last.project_id),
                             get_mission_by_id(last.project_id).start_date,
                             get_mission_by_id(last.project_id).end_date)

\* ---- C35 ----
\* the rows of the store that have status Assigned and hold the mission
AssignedRows(df, project_id) ==
  {i \in DOMAIN df :
     df[i].status = "Assigned" /\ df[i].current_assignment = project_id}

\* C35: after any sequence of create_assignment calls no mission is held by
\* more than one pilot or by more than one drone: a create_assignment for a
\* mission that already has its pilot and its drone commits no further
\* pilot or drone to it.
C35_OneHolderPerMission ==
  /\ \A project_id \in MissionIds :
        /\ Cardinality(AssignedRows(pilot_roster, project_id)) <= 1
        /\ Cardinality(AssignedRows(drone_fleet, project_id)) <= 1
  /\ (/\ CreateRan
      /\ AssignedRows(last.pre_roster, last.project_id) # {}
      /\ AssignedRows(last.pre_fleet, last.project_id) # {})
       => /\ AssignedRows(pilot_roster, last.project_id)
               = AssignedRows(last.pre_roster, last.project_id)
          /\ AssignedRows(drone_fleet, last.project_id)
               = AssignedRows(last.pre_fleet, last.project_id)

\* ---- C36 ----
\* the pilot meets every requirement of the mission and is free: status
\* Available and no current assignment
EligibleFreePilot(pilot, mission) ==
  /\ TokenSet(mission.required_skills) \subseteq TokenSet(pilot.skills)
  /\ TokenSet(mission.required_certs) \subseteq TokenSet(pilot.certifications)
  /\ str_contains(pilot.location, mission.location)
  /\ pilot.daily_rate_inr
       * calculate_mission_duration(mission.start_date, mission.end_date)
       <= mission.mission_budget_inr
  /\ pilot.status = "Available"
  /\ pilot.current_assignment = Dash

\* the same for a drone
EligibleFreeDrone(drone, project_id) ==
  /\ EligibleDrone(drone, project_id)
  /\ drone.current_assignment = Dash

\* C36: when the store holds a pilot and a drone that are each eligible for
\* the mission and free, create_assignment with both ids left out succeeds,
\* whatever other records the store holds and in whatever order.
C36_AutoMatchSucceeds ==
  (/\ CreateRan
   /\ Falsy(last.pilot_arg) /\ Falsy(last.drone_arg)
   /\ \E i \in DOMAIN last.pre_roster :
         EligibleFreePilot(last.pre_roster[i], get_mission_by_id(last.project_id))
   /\ \E i \in DOMAIN last.pre_fleet :
         EligibleFreeDrone(last.pre_fleet[i], last.project_id))
    => last.result.success

\* ---- C37 ----
\* create_assignment was called with a pilot id and a drone id
ExplicitCreate ==
  /\ last.op = "create_assignment"
  /\ ~Falsy(last.pilot_arg)
  /\ ~Falsy(last.drone_arg)

\* C37: create_assignment with both ids supplied succeeds iff the mission
\* exists, the pilot exists with status Available and no current
\* assignment, and the drone exists with status Available; the supplied
\* pilot and drone are not checked for skills, certifications, location,
\* budget or weather.
C37_ExplicitIdsSucceedIff ==
  ExplicitCreate
    => (last.result.success
          <=> /\ HasMission(last.project_id)
              /\ PilotIs(last.pre_roster, last.pilot_arg, "Available", Dash)
              /\ HasDrone(last.pre_fleet, last.drone_arg)
              /\ get_drone_by_id(last.pre_fleet, last.drone_arg).status = "Available")

\* a pilot without the mission's skill and a drone were supplied and both
\* were committed
C37_Witness ==
  /\ ExplicitCreate
  /\ last.result.success
  /\ ~skills_match(get_pilot_by_id(last.pre_roster, last.pilot_arg).skills,
                   get_mission_by_id(last.project_id).required_skills)
  /\ PilotIs(pilot_roster, last.pilot_arg, "Assigned", last.project_id)
  /\ DroneIs(drone_fleet, last.drone_arg, "Assigned", last.project_id)

\* ---- C38 ----
\* the rows of the store that differ from the rows of before
ChangedRows(before, after) == {i \in DOMAIN after : after[i] # before[i]}

\* C38: create_assignment and handle_urgent_reassignment never modify a
\* mission record (status, assigned pilot, assigned drone), and a
\* successful create_assignment changes only the record of the pilot and
\* the record of the drone it committed: every other pilot and drone record
\* is as it was when create_assignment was invoked.
C38_AssignmentFrame ==
  /\ mission_cells = InitialMissionCells
  /\ (last.invoked /\ last.result.success)
       => /\ ChangedRows(last.call_roster, pilot_roster)
               = {FirstIndex(pilot_roster, "pilot_id", last.result.pilot_id)}
          /\ ChangedRows(last.call_fleet, drone_fleet)
               = {FirstIndex(drone_fleet, "drone_id", last.result.drone_id)}

\* a second assignment succeeded while an earlier one stood: the rows of
\* the earlier pilot and drone are among those left alone
C38_Witness ==
  /\ last.op = "create_assignment"
  /\ last.result.success
  /\ \E i \in DOMAIN last.call_roster : last.call_roster[i].status = "Assigned"
  /\ \E i \in DOMAIN last.call_fleet : last.call_fleet[i].status = "Assigned"
  /\ Cardinality(ChangedRows(last.call_roster, pilot_roster)) = 1
  /\ Cardinality(ChangedRows(last.call_fleet, drone_fleet)) = 1
  /\ mission_cells = InitialMissionCells

\* the last status update named an id that its store did not hold
UnknownIdUpdate ==
  \/ StatusUpdateRan("update_pilot_status")
       /\ last.status \in PilotValidStatuses
       /\ ~HasPilot(last.pre_roster, last.id)
  \/ StatusUpdateRan("update_drone_status")
       /\ last.status \in DroneValidStatuses
       /\ ~HasDrone(last.pre_fleet, last.id)

\* C39: update_pilot_status / update_drone_status with a valid status and
\* an id that is not in the store returns True although both stores are
\* left as they were: the caller is never told that nothing was written.
C39_UnknownIdReportsSuccess ==
  UnknownIdUpdate
    => /\ last.ok
       /\ pilot_roster = last.pre_roster
       /\ drone_fleet = last.pre_fleet

\* a drone that is not in the fleet is "set" to Maintenance after an
\* earlier call had changed the stores, and the call reports success
C39_Witness ==
  /\ StatusUpdateRan("update_drone_status")
  /\ last.id = "D9" /\ last.status = "Maintenance" /\ last.ok
  /\ ~HasDrone(last.pre_fleet, "D9")
  /\ drone_fleet = last.pre_fleet
  /\ steps > 1

=============================================================================
